---- MODULE Spec2Model ----
(***************************************************************************)
(* A model of the template-mapping pipeline of ai_doc_gen (src/main.py):   *)
(* the response parsers of the oracle client, the structural extractor     *)
(* (stage1_analyze_template), the template filler (stage3_fill_template)   *)
(* and the orchestrator (run_generation, run_complete_workflow).           *)
(*                                                                         *)
(* Text is modelled character by character: a Python str is a sequence of  *)
(* one-character strings, indexed from 0 as in Python.  Where the source   *)
(* never looks inside a run of characters (the words of a cell key, a      *)
(* dictionary key, a file extension) the run is written as one element.    *)
(***************************************************************************)
EXTENDS Integers, Sequences, FiniteSets, TLC

(***************************************************************************)
(* Bounds of the model.                                                    *)
(***************************************************************************)
\* most whitespace characters put before or after an oracle response
MaxPad == 1
\* most tables of a template, and most rows and grid columns of a table
MaxTables == 2
MaxRows == 2
MaxCols == 2

(***************************************************************************)
(* Python str operations used by the source.                               *)
(***************************************************************************)
DQ == "\""
NL == "\n"
\* the backtick character (SANY cannot lex it inside a string literal)
BT == "BACKTICK"

\* the characters str.strip() and the JSON decoder treat as whitespace
Whitespace == {" ", NL}

\* s[i] for 0 <= i < len(s)
At(s, i) == s[i + 1]

Min2(a, b) == IF a < b THEN a ELSE b
Max2(a, b) == IF a > b THEN a ELSE b

\* the element of a one-element set; Only({e(x) : x \in {v}}) is e with x standing
\* for the value of v
Only(S) == CHOOSE x \in S : TRUE

\* s[a:b] for a, b >= 0 (Python clips both to len(s))
Slice(s, a, b) ==
    LET hi == Min2(b, Len(s))
    IN  IF a >= hi THEN <<>> ELSE SubSeq(s, a + 1, hi)

\* s[a:]
SliceFrom(s, a) == Slice(s, a, Len(s))

\* s.startswith(p), s.endswith(p)
StartsWith(s, p) == Len(p) <= Len(s) /\ Slice(s, 0, Len(p)) = p
EndsWith(s, p) == Len(p) <= Len(s) /\ SliceFrom(s, Len(s) - Len(p)) = p

\* s.find(sub, start): the lowest index >= start where sub occurs, else -1
Find(s, sub, start) ==
    LET hits == {i \in start..(Len(s) - Len(sub)) : Slice(s, i, i + Len(sub)) = sub}
    IN  IF hits = {} THEN -1 ELSE CHOOSE i \in hits : \A j \in hits : i <= j

\* sub in s
Contains(s, sub) == Find(s, sub, 0) # -1

\* s.strip(chars) for a set of characters
StripChars(s, chars) ==
    LET keep == {i \in 0..(Len(s) - 1) : At(s, i) \notin chars}
    IN  IF keep = {} THEN <<>>
        ELSE LET lo == CHOOSE i \in keep : \A j \in keep : i <= j
                 hi == CHOOSE i \in keep : \A j \in keep : i >= j
             IN  Slice(s, lo, hi + 1)

\* s.strip()
Strip(s) == StripChars(s, Whitespace)

\* s.split(sep)[0]: the text before the first sep (all of s when there is none)
SplitFirst(s, sep) ==
    LET i == Find(s, sep, 0)
    IN  IF i = -1 THEN s ELSE Slice(s, 0, i)

\* s.split(sep)[1] when sep occurs in s: the text between the first sep and the next
SplitSecond(s, sep) ==
    SplitFirst(SliceFrom(s, Find(s, sep, 0) + Len(sep)), sep)

(***************************************************************************)
(* Python values as json.loads builds them: str, int, list and dict.  A    *)
(* dict keeps its items in insertion order, each key once.                 *)
(***************************************************************************)
VStr(s) == [t |-> "str", s |-> s, items |-> <<>>]
VNum(s) == [t |-> "num", s |-> s, items |-> <<>>]
VList(items) == [t |-> "list", s |-> <<>>, items |-> items]
VDict(items) == [t |-> "dict", s |-> <<>>, items |-> items]
Item(k, v) == [k |-> k, v |-> v]

\* d[key] = val on the item list of a dict
DictPut(items, key, val) ==
    IF \E n \in 1..Len(items) : items[n].k = key
    THEN [n \in 1..Len(items) |->
            IF items[n].k = key THEN Item(key, val) ELSE items[n]]
    ELSE Append(items, Item(key, val))

\* key in d
DictHas(d, key) == \E n \in 1..Len(d.items) : d.items[n].k = key

\* d[key] for a key of d
DictGet(d, key) == d.items[CHOOSE n \in 1..Len(d.items) : d.items[n].k = key].v
(***************************************************************************)
(* json.loads, for the JSON texts of the model: strings without escapes,   *)
(* unsigned integers, arrays and objects.  A parse returns                 *)
(* [ok, val, pos]: whether a value was read, the value, and the index      *)
(* after it.                                                               *)
(***************************************************************************)
Digits == {"0", "1", "2", "3", "4", "5", "6", "7", "8", "9"}

ParseFail == [ok |-> FALSE, val |-> VStr(<<>>), pos |-> 0]
ParseOk(v, p) == [ok |-> TRUE, val |-> v, pos |-> p]

\* the index of the first character at or after i that is not whitespace
SkipWs(s, i) ==
    LET rest == {j \in i..(Len(s) - 1) : At(s, j) \notin Whitespace}
    IN  IF rest = {} THEN Max2(i, Len(s))
        ELSE CHOOSE j \in rest : \A k \in rest : j <= k

\* a string literal opening at i: it runs to the next quote and holds no line break
ParseString(s, i) ==
    LET j == Find(s, <<DQ>>, i + 1)
    IN  IF j = -1 \/ Contains(Slice(s, i + 1, j), <<NL>>)
        THEN ParseFail
        ELSE ParseOk(VStr(Slice(s, i + 1, j)), j + 1)

\* an integer starting at i: a run of digits with no leading zero
ParseNumber(s, i) ==
    LET stop == {j \in i..(Len(s) - 1) : At(s, j) \notin Digits}
        e == IF stop = {} THEN Len(s) ELSE CHOOSE j \in stop : \A k \in stop : j <= k
    IN  IF At(s, i) = "0" /\ e > i + 1
        THEN ParseOk(VNum(<<"0">>), i + 1)
        ELSE ParseOk(VNum(Slice(s, i, e)), e)

RECURSIVE ParseValue(_, _)
RECURSIVE ParseMembers(_, _, _)
RECURSIVE ParseElements(_, _, _)

\* one value starting at index i (whitespace already skipped)
ParseValue(s, i) ==
    IF i >= Len(s) THEN ParseFail
    ELSE IF At(s, i) = DQ THEN ParseString(s, i)
    ELSE IF At(s, i) \in Digits THEN ParseNumber(s, i)
    ELSE IF At(s, i) = "{" THEN
        LET k == SkipWs(s, i + 1)
        IN  IF k < Len(s) /\ At(s, k) = "}" THEN ParseOk(VDict(<<>>), k + 1)
            ELSE ParseMembers(s, k, <<>>)
    ELSE IF At(s, i) = "[" THEN
        LET k == SkipWs(s, i + 1)
        IN  IF k < Len(s) /\ At(s, k) = "]" THEN ParseOk(VList(<<>>), k + 1)
            ELSE ParseElements(s, k, <<>>)
    ELSE ParseFail

\* the members of an object from index i on, acc holding those read so far
ParseMembers(s, i, acc) ==
    IF i >= Len(s) \/ At(s, i) # DQ THEN ParseFail
    ELSE Only({
        LET c == SkipWs(s, key.pos)
        IN  IF ~key.ok \/ c >= Len(s) \/ At(s, c) # ":" THEN ParseFail
            ELSE Only({
                LET e == SkipWs(s, val.pos)
                    got == DictPut(acc, key.val.s, val.val)
                IN  IF ~val.ok \/ e >= Len(s) THEN ParseFail
                    ELSE IF At(s, e) = "}" THEN ParseOk(VDict(got), e + 1)
                    ELSE IF At(s, e) = "," THEN ParseMembers(s, SkipWs(s, e + 1), got)
                    ELSE ParseFail
                : val \in {ParseValue(s, SkipWs(s, c + 1))}})
        : key \in {ParseString(s, i)}})

\* the elements of an array from index i on, acc holding those read so far
ParseElements(s, i, acc) ==
    Only({
        LET e == SkipWs(s, val.pos)
        IN  IF ~val.ok \/ e >= Len(s) THEN ParseFail
            ELSE IF At(s, e) = "]" THEN ParseOk(VList(Append(acc, val.val)), e + 1)
            ELSE IF At(s, e) = "," THEN ParseElements(s, SkipWs(s, e + 1), Append(acc, val.val))
            ELSE ParseFail
        : val \in {ParseValue(s, i)}})

\* json.loads(s): [ok, val]; ok is FALSE where json.loads raises JSONDecodeError
JsonLoads(s) ==
    Only({
        Only({
            IF r.ok /\ SkipWs(text, r.pos) = Len(text)
            THEN [ok |-> TRUE, val |-> r.val]
            ELSE [ok |-> FALSE, val |-> VStr(<<>>)]
            : r \in {ParseValue(text, SkipWs(text, 0))}})
        : text \in {s}})
(***************************************************************************)
(* The response parsers of the oracle client.                              *)
(***************************************************************************)
\* the opening of a labelled code block, and of any code block
FenceJson == <<BT, BT, BT, "j", "s", "o", "n">>
Fence == <<BT, BT, BT>>
\* the length of the labelled opening, as the source writes it
FenceJsonLen == 7

Raised == [raised |-> TRUE, str |-> <<>>]
Returned(str) == [raised |-> FALSE, str |-> str]

\* brace_count after the loop over content[start_idx:] has handled index i
BraceCount(content, start_idx, i) ==
    Cardinality({j \in start_idx..i : At(content, j) = "{"})
        - Cardinality({j \in start_idx..i : At(content, j) = "}"})

\* the loop over content[start_idx:]: the first span from start_idx that ends in a
\* closing brace bringing brace_count to 0 and that json.loads accepts (the loop
\* goes on after a span it rejects), or nothing when the loop ends without one
BraceScan(content, start_idx) ==
    Only({
        IF ends = {} THEN [found |-> FALSE, str |-> <<>>]
        ELSE [found |-> TRUE,
              str |-> Slice(content, start_idx,
                            1 + CHOOSE i \in ends : \A j \in ends : i <= j)]
        : ends \in {{i \in start_idx..(Len(content) - 1) :
                        /\ At(content, i) = "}"
                        /\ BraceCount(content, start_idx, i) = 0
                        /\ JsonLoads(Slice(content, start_idx, i + 1)).ok}}})

\* the last two attempts of _extract_json_from_response: the balanced span, then
\* the content as it is
ExtractByBraces(content) ==
    Only({
        IF scan.found THEN Returned(scan.str)
        ELSE IF JsonLoads(content).ok THEN Returned(content)
        ELSE Raised
        : scan \in {IF Find(content, <<"{">>, 0) # -1
                    THEN BraceScan(content, Find(content, <<"{">>, 0))
                    ELSE [found |-> FALSE, str |-> <<>>]}})

\* the second attempt of _extract_json_from_response and what follows it
ExtractByBackticks(content) ==
    LET json_str == Strip(StripChars(content, {BT}))
    IN  IF StartsWith(content, <<BT>>) /\ EndsWith(content, <<BT>>) /\ json_str # <<>>
        THEN Returned(json_str)
        ELSE ExtractByBraces(content)

\* _extract_json_from_response(response_content): the JSON text, or a raise of
\* ValueError
ExtractJsonFromResponse(response_content) ==
    Only({
        LET start == Find(content, FenceJson, 0) + FenceJsonLen
            end == Find(content, Fence, start)
            json_str == Strip(Slice(content, start, end))
        IN  IF content = <<>> THEN Raised
            ELSE IF Contains(content, FenceJson) /\ end # -1 /\ json_str # <<>>
                 THEN Returned(json_str)
            ELSE ExtractByBackticks(content)
        : content \in {Strip(response_content)}})

\* the text stage2_5_ai_generate_fill_data hands to json.loads
FillDataJsonText(content) ==
    IF Contains(content, FenceJson)
    THEN SplitFirst(SplitSecond(content, FenceJson), Fence)
    ELSE IF StartsWith(content, <<BT>>) /\ EndsWith(content, <<BT>>)
         THEN StripChars(content, {BT})
    ELSE content
(***************************************************************************)
(* The two oracle calls.  A reply is what the completion request gives     *)
(* back: kind "raises" (the request raises: timeout, transport error),     *)
(* "no_choices" (a response without choices) or "message" (a response      *)
(* whose first choice has the content given, possibly empty).              *)
(***************************************************************************)
Reply(kind, content) == [kind |-> kind, content |-> content]

\* the reserved key of a fill data, and the keys of an exhibit
AttachmentsKey == <<"__attachments__">>
TitleKey == <<"title">>
PathKey == <<"path">>
EmptyDict == VDict(<<>>)

\* whether the logging of stage2_5_ai_generate_fill_data gets through the parsed
\* value: it takes len() of the attachment entry and calls .items() on the value
LoggableFillData(v) ==
    /\ v.t = "dict"
    /\ DictHas(v, AttachmentsKey) => DictGet(v, AttachmentsKey).t # "num"

\* stage2_5_ai_generate_fill_data, from the completion request on: the fill data
\* it returns (every exception ends in the empty dict)
Stage2_5GenerateFillData(reply) ==
    IF reply.kind # "message" \/ reply.content = <<>> THEN EmptyDict
    ELSE Only({
            IF loaded.ok /\ LoggableFillData(loaded.val) THEN loaded.val ELSE EmptyDict
            : loaded \in {JsonLoads(Strip(FillDataJsonText(reply.content)))}})

\* the text stage2_1_ai_extract_data_from_sources hands to json.loads, and what
\* json.loads makes of it
ExtractedJson(content) ==
    Only({
        IF json_string.raised THEN [ok |-> FALSE, val |-> VStr(<<>>)]
        ELSE JsonLoads(json_string.str)
        : json_string \in {ExtractJsonFromResponse(content)}})

\* an extraction that answers a response it cannot parse with an empty dict
Stage2_1ExtractDataSoft(reply) ==
    IF reply.kind # "message" \/ reply.content = <<>>
    THEN [raised |-> TRUE, data |-> EmptyDict]
    ELSE Only({
            IF ~loaded.ok \/ loaded.val.t # "dict"
            THEN [raised |-> FALSE, data |-> EmptyDict]
            ELSE [raised |-> FALSE, data |-> loaded.val]
            : loaded \in {ExtractedJson(reply.content)}})

\* stage2_1_ai_extract_data_from_sources, from the completion request on: the
\* extracted data, or a raise
Stage2_1ExtractData(reply) ==
    IF reply.kind # "message" \/ reply.content = <<>>
    THEN [raised |-> TRUE, data |-> EmptyDict]
    ELSE Only({
            IF ~loaded.ok \/ loaded.val.t # "dict"
            THEN [raised |-> TRUE, data |-> EmptyDict]
            ELSE [raised |-> FALSE, data |-> loaded.val]
            : loaded \in {ExtractedJson(reply.content)}})

(***************************************************************************)
(* Documents.  A document holds its tables in document order, the number   *)
(* of its body paragraphs, and the elements the filler appends to its      *)
(* body.  A table holds the text of its physical cells and, for every row, *)
(* what python-docx returns as row.cells: one cell reference per grid      *)
(* column, so that a merged cell is referenced once for every grid         *)
(* position it covers.                                                     *)
(***************************************************************************)
Table(cells, grid) == [cells |-> cells, grid |-> grid]
Doc(tables, paras) == [tables |-> tables, paras |-> paras, body |-> <<>>]

RECURSIVE Flatten(_)
Flatten(seqs) == IF seqs = <<>> THEN <<>> ELSE Head(seqs) \o Flatten(Tail(seqs))

\* str(n) for n >= 0
DigitOf(n) == <<"0", "1", "2", "3", "4", "5", "6", "7", "8", "9">>[n + 1]
RECURSIVE IntStr(_)
IntStr(n) == IF n < 10 THEN <<DigitOf(n)>> ELSE IntStr(n \div 10) \o <<DigitOf(n % 10)>>

\* f"table_{i}_row_{j}_col_{k}"
CellKey(i, j, k) ==
    <<"table_">> \o IntStr(i) \o <<"_row_">> \o IntStr(j) \o <<"_col_">> \o IntStr(k)

\* the cells the three nested loops visit, in order: for every table i, row j and
\* entry k of row.cells, the key and the physical cell c it refers to
RowVisits(i, j, row) ==
    [k \in 1..Len(row) |-> [i |-> i, key |-> CellKey(i - 1, j - 1, k - 1), c |-> row[k]]]
TableVisits(i, table) ==
    Flatten([j \in 1..Len(table.grid) |-> RowVisits(i, j, table.grid[j])])
Visits(doc) ==
    Flatten([i \in 1..Len(doc.tables) |-> TableVisits(i, doc.tables[i])])

\* cell.text of the cell a visit refers to
CellText(doc, visit) == doc.tables[visit.i].cells[visit.c]

\* cell.text = value
SetCellText(doc, visit, value) ==
    [doc EXCEPT !.tables[visit.i].cells[visit.c] = value]

RECURSIVE AnalyzeFrom(_, _, _, _)
\* the loop of stage1_analyze_template from visit n on
AnalyzeFrom(doc, visits, n, template_structure) ==
    IF n > Len(visits) THEN template_structure
    ELSE AnalyzeFrom(doc, visits, n + 1,
            DictPut(template_structure, visits[n].key,
                    VStr(Strip(CellText(doc, visits[n])))))

\* a file at a template path: a readable document, or something Document() rejects
DocFile(doc) == [exists |-> TRUE, readable |-> TRUE, doc |-> doc]
JunkFile == [exists |-> TRUE, readable |-> FALSE, doc |-> Doc(<<>>, 0)]
\* no file at the path
NoFile == [exists |-> FALSE, readable |-> FALSE, doc |-> Doc(<<>>, 0)]

\* an analysis that writes the document back with its cells emptied
TemplateEmptied(file) ==
    [file EXCEPT !.doc.tables =
        [i \in 1..Len(file.doc.tables) |->
            [file.doc.tables[i] EXCEPT !.cells =
                [c \in 1..Len(file.doc.tables[i].cells) |-> <<>>]]]]

\* the file at the template path after stage1_analyze_template(template_path):
\* the document is opened and read, and never saved
TemplateAfterStage1(file) == file

\* stage1_analyze_template(template_path): the structure, or a raise
Stage1AnalyzeTemplate(file) ==
    IF ~file.readable THEN [raised |-> TRUE, structure |-> VDict(<<>>)]
    ELSE [raised |-> FALSE,
          structure |-> VDict(AnalyzeFrom(file.doc, Visits(file.doc), 1, <<>>))]
(***************************************************************************)
(* Python built-ins the filler applies to the values of the fill data.     *)
(***************************************************************************)
RECURSIVE JoinWith(_, _)
\* sep.join(parts)
JoinWith(parts, sep) ==
    IF parts = <<>> THEN <<>>
    ELSE IF Len(parts) = 1 THEN parts[1]
    ELSE parts[1] \o sep \o JoinWith(Tail(parts), sep)

\* repr(s) of a str without quotes in it: a line break is written as \n
ReprStr(s) ==
    <<"'">> \o Flatten([n \in 1..Len(s) |-> IF s[n] = NL THEN <<"\\", "n">> ELSE <<s[n]>>])
        \o <<"'">>

RECURSIVE PyRepr(_)
PyRepr(v) ==
    IF v.t = "str" THEN ReprStr(v.s)
    ELSE IF v.t = "num" THEN v.s
    ELSE IF v.t = "list"
        THEN <<"[">> \o JoinWith([n \in 1..Len(v.items) |-> PyRepr(v.items[n])], <<",", " ">>)
                \o <<"]">>
    ELSE <<"{">> \o JoinWith([n \in 1..Len(v.items) |->
                        ReprStr(v.items[n].k) \o <<":", " ">> \o PyRepr(v.items[n].v)],
                     <<",", " ">>) \o <<"}">>

\* str(v)
PyStr(v) == IF v.t = "str" THEN v.s ELSE PyRepr(v)

\* bool(v)
Truthy(v) ==
    IF v.t = "str" THEN v.s # <<>>
    ELSE IF v.t = "num" THEN v.s # <<"0">>
    ELSE v.items # <<>>

\* what iterating over v yields (len(v) and iteration raise TypeError on an int)
Iterate(v) ==
    IF v.t = "list" THEN v.items
    ELSE IF v.t = "dict" THEN [n \in 1..Len(v.items) |-> VStr(v.items[n].k)]
    ELSE [n \in 1..Len(v.s) |-> VStr(<<v.s[n]>>)]

\* d.get(key, default) in the place of d.pop: the key stays in the dict
DictPopKeeping(d, key, default) ==
    [val |-> IF DictHas(d, key) THEN DictGet(d, key) ELSE default,
     rest |-> d]

\* d.pop(key, default): the value and the dict left
DictPop(d, key, default) ==
    [val |-> IF DictHas(d, key) THEN DictGet(d, key) ELSE default,
     rest |-> VDict(SelectSeq(d.items, LAMBDA it : it.k # key))]

\* set(d.keys())
DictKeys(d) == {d.items[n].k : n \in 1..Len(d.items)}

\* os.path.basename(path)
Basename(path) ==
    LET cuts == {n \in 1..Len(path) : path[n] = "/"}
    IN  IF cuts = {} THEN path
        ELSE SubSeq(path, (CHOOSE n \in cuts : \A m \in cuts : n >= m) + 1, Len(path))

\* whether mimetypes.guess_type(path) names an image type: decided by the extension
ImageExtensions == {<<".png">>, <<".jpg">>}
IsImagePath(path) == \E ext \in ImageExtensions : EndsWith(path, ext)
(***************************************************************************)
(* stage3_fill_template.                                                   *)
(***************************************************************************)
Unknown == <<"Unknown">>

RECURSIVE FillFromEveryCell(_, _, _, _)
\* a fill loop that writes every cell it visits: str(fill_data.get(cell_key, ""))
FillFromEveryCell(visits, n, fill_data, st) ==
    IF n > Len(visits) THEN st
    ELSE FillFromEveryCell(visits, n + 1, fill_data,
            [doc |-> SetCellText(st.doc, visits[n],
                        IF DictHas(fill_data, visits[n].key)
                        THEN PyStr(DictGet(fill_data, visits[n].key)) ELSE <<>>),
             filled_fields_count |->
                st.filled_fields_count + IF DictHas(fill_data, visits[n].key) THEN 1 ELSE 0,
             remaining_to_fill |-> st.remaining_to_fill \ {visits[n].key}])

RECURSIVE FillFromKeepingTrack(_, _, _, _)
\* a fill loop that never takes a key out of remaining_to_fill
FillFromKeepingTrack(visits, n, fill_data, st) ==
    IF n > Len(visits) THEN st
    ELSE IF DictHas(fill_data, visits[n].key)
         THEN FillFromKeepingTrack(visits, n + 1, fill_data,
                [doc |-> SetCellText(st.doc, visits[n], PyStr(DictGet(fill_data, visits[n].key))),
                 filled_fields_count |-> st.filled_fields_count + 1,
                 remaining_to_fill |-> st.remaining_to_fill])
    ELSE FillFromKeepingTrack(visits, n + 1, fill_data, st)

RECURSIVE FillFrom(_, _, _, _)
\* the fill loop from visit n on; st holds the document, filled_fields_count and
\* remaining_to_fill
FillFrom(visits, n, fill_data, st) ==
    IF n > Len(visits) THEN st
    ELSE IF DictHas(fill_data, visits[n].key)
         THEN FillFrom(visits, n + 1, fill_data,
                [doc |-> SetCellText(st.doc, visits[n], PyStr(DictGet(fill_data, visits[n].key))),
                 filled_fields_count |-> st.filled_fields_count + 1,
                 remaining_to_fill |-> st.remaining_to_fill \ {visits[n].key}])
    ELSE FillFrom(visits, n + 1, fill_data, st)

Element(kind, text) == [kind |-> kind, text |-> text]

\* whether reading the attachment list before the fill raises: len() of an int,
\* or .get on an entry that is not a dict
AttachmentsUnusable(attachments_data) ==
    \/ attachments_data.t = "num"
    \/ /\ Truthy(attachments_data)
       /\ \E n \in 1..Len(Iterate(attachments_data)) : Iterate(attachments_data)[n].t # "dict"

\* the body elements appended for exhibit i (counted from 1); fs tells which paths
\* exist and which images cannot be inserted.  raised: os.path raises TypeError on
\* a path that is no str
ExhibitElements(i, attachment, fs) ==
    LET title == IF DictHas(attachment, TitleKey) THEN PyStr(DictGet(attachment, TitleKey))
                 ELSE <<"ATTACHMENT", " ">> \o IntStr(i)
        has == DictHas(attachment, PathKey) /\ Truthy(DictGet(attachment, PathKey))
        path == IF has THEN DictGet(attachment, PathKey) ELSE VStr(<<>>)
        heading == Element("sub_heading", IntStr(i) \o <<".", " ">> \o title)
    IN  IF ~has
        THEN [raised |-> FALSE, elements |-> <<Element("not_found", Unknown)>>]
        ELSE IF path.t # "str"
        THEN [raised |-> TRUE, elements |-> <<>>]
        ELSE IF path.s \notin fs.exists
        THEN [raised |-> FALSE, elements |-> <<Element("not_found", Basename(path.s))>>]
        ELSE IF ~IsImagePath(path.s)
        THEN [raised |-> FALSE,
              elements |-> <<heading, Element("file_ref", Basename(path.s))>>]
        ELSE IF path.s \in fs.broken
        THEN [raised |-> FALSE,
              elements |-> <<heading, Element("cannot_show", Basename(path.s))>>]
        ELSE [raised |-> FALSE, elements |-> <<heading, Element("picture", path.s)>>]

RECURSIVE ExhibitsFrom(_, _, _, _)
\* the exhibit loop from entry n on, acc holding the elements appended so far
ExhibitsFrom(attachments, n, fs, acc) ==
    IF n > Len(attachments) THEN [raised |-> FALSE, elements |-> acc]
    ELSE LET one == ExhibitElements(n, attachments[n], fs)
         IN  IF one.raised THEN [raised |-> TRUE, elements |-> acc]
             ELSE ExhibitsFrom(attachments, n + 1, fs, acc \o one.elements)

\* the attachment section appended to the body when the list is not empty
AttachmentSection(doc, attachments_data, fs) ==
    IF ~Truthy(attachments_data) THEN [raised |-> FALSE, elements |-> <<>>]
    ELSE ExhibitsFrom(Iterate(attachments_data), 1, fs,
            (IF doc.paras > 0 \/ Len(doc.tables) > 0
             THEN <<Element("page_break", <<>>)>> ELSE <<>>)
            \o <<Element("section_heading", <<"ATTACHMENTS">>)>>)

\* a file at an output path
NoOutput == [state |-> "absent", doc |-> Doc(<<>>, 0)]
Saved(doc) == [state |-> "complete", doc |-> doc]
\* what doc.save leaves when writing the archive fails after the file was opened
Truncated == [state |-> "partial", doc |-> Doc(<<>>, 0)]

\* the outcomes of doc.save(output_path): the archive is written straight to the
\* destination path, so a failure leaves nothing or a truncated file there
SaveOutcomes == {"ok", "fail_before", "fail_partway"}

Stage3Raise(fill_data, output) ==
    [raised |-> TRUE, output |-> output, doc |-> Doc(<<>>, 0),
     filled_fields_count |-> 0, total |-> 0, remaining_to_fill |-> {},
     fill_data |-> fill_data]

\* stage3_fill_template(template_path, output_path, fill_data): file is what lies at
\* template_path, save the outcome of doc.save.  Returns whether it raised, the
\* file left at output_path, the document in memory, the counts it logs and the
\* caller's fill_data dict (the pop changes it in place)
Stage3FillTemplate(file, fill_data, fs, save) ==
    LET popped == DictPop(fill_data, AttachmentsKey, VList(<<>>))
        attachments_data == popped.val
        rest == popped.rest
        filled == FillFrom(Visits(file.doc), 1, rest,
                    [doc |-> file.doc, filled_fields_count |-> 0,
                     remaining_to_fill |-> DictKeys(rest)])
        section == AttachmentSection(filled.doc, attachments_data, fs)
        final == [filled.doc EXCEPT !.body = section.elements]
    IN  IF ~file.exists \/ ~file.readable THEN Stage3Raise(fill_data, NoOutput)
        ELSE IF AttachmentsUnusable(attachments_data) \/ section.raised
        THEN Stage3Raise(rest, NoOutput)
        ELSE IF save = "fail_before" THEN Stage3Raise(rest, NoOutput)
        ELSE IF save = "fail_partway" THEN Stage3Raise(rest, Truncated)
        ELSE [raised |-> FALSE, output |-> Saved(final), doc |-> final,
              filled_fields_count |-> filled.filled_fields_count,
              total |-> Len(rest.items),
              remaining_to_fill |-> filled.remaining_to_fill,
              fill_data |-> rest]
(***************************************************************************)
(* The context assembly of stage2_1_ai_extract_data_from_sources.  fs      *)
(* tells which paths exist (exists), which of them cannot be read          *)
(* (unreadable), and for a paginated document the number of embedded       *)
(* images of every page (pages) and the image whose extraction fails       *)
(* (bad_image, <<page, image>> counted from 0, or <<>>).                   *)
(***************************************************************************)
TextExtensions == {<<".txt">>, <<".md">>, <<".json">>}
Extension(path) == IF path = <<>> THEN <<>> ELSE <<path[Len(path)]>>
\* os.path.splitext(file_name)[0]
Stem(file_name) == IF file_name = <<>> THEN <<>> ELSE SubSeq(file_name, 1, Len(file_name) - 1)

CanRead(fs, path) == path \in fs.exists /\ path \notin fs.unreadable

\* the temporary file an embedded image is written to
TempImagePath(file_name, page_num, img_index) ==
    <<"uploads", "/", "pdf_">> \o Stem(file_name) \o <<"_p">> \o IntStr(page_num + 1)
        \o <<"_img">> \o IntStr(img_index) \o <<".png">>

TextPart(file_name) == <<"Content from">> \o file_name

RECURSIVE PdfImagesFrom(_, _, _, _, _)
\* the page loop of a paginated document from image img_index of page page_num
\* on: the temporary images written before the loop ends or the extraction fails
PdfImagesFrom(pdf, file_name, page_num, img_index, acc) ==
    IF page_num >= Len(pdf.pages) THEN [raised |-> FALSE, images |-> acc]
    ELSE IF img_index >= pdf.pages[page_num + 1]
         THEN PdfImagesFrom(pdf, file_name, page_num + 1, 0, acc)
    ELSE IF pdf.bad_image = <<page_num, img_index>>
         THEN [raised |-> TRUE, images |-> acc]
    ELSE PdfImagesFrom(pdf, file_name, page_num, img_index + 1,
            Append(acc, TempImagePath(file_name, page_num, img_index)))

\* one pass of the attachment loop: the text part and the image paths the file adds
AttachmentParts(file_path, fs) ==
    LET file_name == Basename(file_path)
        none == [text |-> <<>>, images |-> <<>>]
        text == [text |-> <<TextPart(file_name)>>, images |-> <<>>]
        scan == PdfImagesFrom(fs.pdf, file_name, 0, 0, <<>>)
    IN  IF Extension(file_path) \in TextExtensions \/ Extension(file_path) = <<".docx">>
        THEN IF CanRead(fs, file_path) THEN text ELSE none
        ELSE IF Extension(file_path) = <<".pdf">>
        THEN IF ~CanRead(fs, file_path) THEN none
             ELSE IF scan.raised THEN [text |-> <<>>, images |-> scan.images]
             ELSE [text |-> <<TextPart(file_name)>>, images |-> scan.images]
        ELSE IF IsImagePath(file_path) THEN [text |-> <<>>, images |-> <<file_path>>]
        ELSE none

RECURSIVE AssembleFrom(_, _, _, _)
\* the attachment loop from entry n on
AssembleFrom(attachment_paths, n, fs, acc) ==
    IF n > Len(attachment_paths) THEN acc
    ELSE LET parts == AttachmentParts(attachment_paths[n], fs)
         IN  AssembleFrom(attachment_paths, n + 1, fs,
                [text |-> acc.text \o parts.text, images |-> acc.images \o parts.images])

\* the request content: the text parts, the images added to the prompt (an image
\* that cannot be read is left out), and the temporary images written on the way
AssembleContext(attachment_paths, fs) ==
    LET found == AssembleFrom(attachment_paths, 1, fs, [text |-> <<>>, images |-> <<>>])
        written == {found.images[n] : n \in 1..Len(found.images)}
                        \ {attachment_paths[n] : n \in 1..Len(attachment_paths)}
        usable == SelectSeq(found.images,
                    LAMBDA img : img \in written \/ CanRead(fs, img))
    IN  [text |-> found.text, images |-> usable, temp_images |-> written]

(***************************************************************************)
(* The templates of the model: up to MaxTables tables of one shape, the    *)
(* last of them laid out plain, with the first two grid columns of every   *)
(* row merged into one cell, or with the first column of the first two     *)
(* rows merged into one cell; the tables before it are plain.              *)
(***************************************************************************)
Layouts == {"plain", "hmerge", "vmerge"}
TextSchemes == {"label", "mixed"}

\* the text of physical cell n of table i: a label, or (scheme mixed) a label
\* between whitespace in the odd cells and nothing in the even ones
CellTextOf(scheme, i, n) ==
    IF scheme = "label" THEN <<"L">> \o IntStr(i) \o IntStr(n)
    ELSE IF n % 2 = 1 THEN <<" ", "L">> \o IntStr(i) \o IntStr(n) \o <<NL>>
    ELSE <<>>

\* row.cells of every row of a table of R rows and C grid columns
GridOf(layout, R, C) ==
    [j \in 1..R |-> [k \in 1..C |->
        IF layout = "hmerge" THEN (j - 1) * (C - 1) + Max2(1, k - 1)
        ELSE IF layout = "vmerge" /\ j = 2 /\ k = 1 THEN 1
        ELSE (j - 1) * C + k]]

\* the cell elements of such a table (a vertical merge keeps the covered cell's
\* element in the file, a horizontal merge does not)
CellCountOf(layout, R, C) == IF layout = "hmerge" THEN R * (C - 1) ELSE R * C

MakeTable(scheme, i, layout, R, C) ==
    Table([n \in 1..CellCountOf(layout, R, C) |-> CellTextOf(scheme, i, n)],
          GridOf(layout, R, C))

LayoutFits(layout, R, C) ==
    /\ layout = "hmerge" => C >= 2
    /\ layout = "vmerge" => R >= 2

Templates ==
    {Doc(<<>>, p) : p \in {0, 1}} \cup
    {Doc([i \in 1..n |-> MakeTable(sc, i, IF i = n THEN lay ELSE "plain", R, C)], 1) :
        <<n, R, C, lay, sc>> \in
            {q \in (1..MaxTables) \X (1..MaxRows) \X (1..MaxCols) \X Layouts \X TextSchemes :
                LayoutFits(q[4], q[2], q[3])}}
(***************************************************************************)
(* The files exhibits refer to, and the fill data of the model.            *)
(***************************************************************************)
ImagePath == <<"u", "/", "a", ".png">>
BrokenImagePath == <<"u", "/", "b", ".png">>
TextPath == <<"u", "/", "c", ".txt">>
MissingPath == <<"u", "/", "m", ".png">>
PdfPath == <<"u", "/", "d", ".pdf">>
OtherPath == <<"u", "/", "e", ".bin">>
Files ==
    [exists |-> {ImagePath, BrokenImagePath, TextPath, PdfPath, OtherPath},
     broken |-> {BrokenImagePath},
     unreadable |-> {BrokenImagePath},
     pdf |-> [pages |-> <<1, 1>>, bad_image |-> <<1, 0>>]]

Exhibit(title, path) == VDict(<<Item(TitleKey, VStr(title)), Item(PathKey, VStr(path))>>)

\* the entries for the reserved key: none, or one whose value is an empty list, a
\* list of exhibits (an image and a missing file; an image that cannot be
\* inserted, a file that is no image and an exhibit with a path only), a list of
\* paths instead of exhibits, an exhibit whose path is a list, or a value that is
\* no list
AttachmentChoices ==
    {<<>>,
     <<Item(AttachmentsKey, VList(<<>>))>>,
     <<Item(AttachmentsKey,
            VList(<<Exhibit(<<"T", "1">>, ImagePath), Exhibit(<<"T", "2">>, MissingPath)>>))>>,
     <<Item(AttachmentsKey,
            VList(<<Exhibit(<<"T", "1">>, BrokenImagePath), Exhibit(<<"T", "2">>, OtherPath),
                    VDict(<<Item(PathKey, VStr(ImagePath))>>)>>))>>,
     <<Item(AttachmentsKey, VList(<<VStr(ImagePath)>>))>>,
     <<Item(AttachmentsKey,
            VList(<<VDict(<<Item(TitleKey, VStr(<<"T", "1">>)),
                            Item(PathKey, VList(<<VStr(ImagePath)>>))>>)>>))>>,
     <<Item(AttachmentsKey, VStr(<<"x">>))>>}

Sentinel(n) == <<"S">> \o IntStr(n)

\* the keys of a structure, in its order
KeysOf(structure) == [n \in 1..Len(structure.items) |-> structure.items[n].k]

\* which keys of the structure a fill data holds
KeySelections == {"none", "all", "first", "rest"}
SelectKeys(keys, sel) ==
    IF sel = "none" THEN <<>>
    ELSE IF sel = "all" THEN keys
    ELSE IF sel = "first" THEN SubSeq(keys, 1, Min2(1, Len(keys)))
    ELSE SubSeq(keys, 2, Len(keys))

\* a fill data for a template: the selected keys of its structure, each with its
\* own sentinel string (selection first: the number 7), then, if asked for, a key
\* no cell of the template has, then the reserved key
FillDataFor(doc, sel, absent, att) ==
    LET keys == SelectKeys(KeysOf(Stage1AnalyzeTemplate(DocFile(doc)).structure), sel)
        cells == [n \in 1..Len(keys) |->
                    Item(keys[n], IF sel = "first" THEN VNum(<<"7">>) ELSE VStr(Sentinel(n)))]
        drift == IF absent THEN <<Item(CellKey(Len(doc.tables), 0, 0), VStr(<<"X">>))>>
                 ELSE <<>>
    IN  VDict(cells \o drift \o att)

FillInputs ==
    {[template |-> DocFile(doc), fill_data |-> FillDataFor(doc, sel, absent, att)] :
        <<doc, sel, absent, att>> \in
            Templates \X KeySelections \X BOOLEAN \X AttachmentChoices}

(***************************************************************************)
(* The oracle responses of the model: the JSON text of a value (or a text  *)
(* that is no JSON), as it is, in a labelled code block, in a code block   *)
(* without a label or between single backticks, with prose and whitespace  *)
(* before and after it.                                                    *)
(***************************************************************************)
RECURSIVE JsonText(_)
\* the JSON text of a value, written as json.dumps writes it
JsonText(v) ==
    IF v.t = "str" THEN <<DQ>> \o v.s \o <<DQ>>
    ELSE IF v.t = "num" THEN v.s
    ELSE IF v.t = "list"
        THEN <<"[">> \o JoinWith([n \in 1..Len(v.items) |-> JsonText(v.items[n])], <<",", " ">>)
                \o <<"]">>
    ELSE <<"{">> \o JoinWith([n \in 1..Len(v.items) |->
                        <<DQ>> \o v.items[n].k \o <<DQ, ":", " ">> \o JsonText(v.items[n].v)],
                     <<",", " ">>) \o <<"}">>

\* a fill data naming the first cell of a template
OneCellFill == VDict(<<Item(CellKey(0, 0, 0), VStr(Sentinel(1)))>>)

\* the JSON objects an oracle answers with
OracleObjects ==
    {EmptyDict,
     OneCellFill,
     VDict(<<Item(CellKey(0, 0, 0), VStr(Sentinel(1))),
             Item(AttachmentsKey, VList(<<Exhibit(<<"T", "1">>, ImagePath)>>))>>),
     VDict(<<Item(<<"k">>, VDict(<<Item(<<"n">>, VNum(<<"7">>))>>))>>),
     VDict(<<Item(<<"k">>, VStr(<<"}">>))>>),
     VDict(<<Item(<<"k">>, VStr(Fence))>>),
     VDict(<<Item(CellKey(0, 0, 0), VStr(Sentinel(1))),
             Item(AttachmentsKey, VStr(ImagePath))>>),
     VDict(<<Item(CellKey(0, 0, 0), VStr(Sentinel(1))),
             Item(AttachmentsKey, VNum(<<"7">>))>>)}

\* answers that hold no JSON object anywhere: prose, a cut-off object, a JSON
\* string, a JSON list of a string
NoObjectBodies ==
    {<<"n", "o">>,
     <<"{", DQ, "k", DQ, ":">>,
     JsonText(VStr(<<"k">>)),
     JsonText(VList(<<VStr(<<"k">>)>>))}

\* an answer that is no JSON object but holds one: a JSON list of an object
EmbeddingBodies == {JsonText(VList(<<OneCellFill>>))}

\* the bodies of the responses, each with what it holds
Bodies ==
    {<<JsonText(o), "object">> : o \in OracleObjects}
        \cup {<<t, "none">> : t \in NoObjectBodies}
        \cup {<<t, "embedded">> : t \in EmbeddingBodies}

Forms == {"raw", "labelled", "plain", "tick"}
Wrap(form, body) ==
    IF form = "labelled" THEN FenceJson \o <<NL>> \o body \o <<NL>> \o Fence
    ELSE IF form = "plain" THEN Fence \o <<NL>> \o body \o <<NL>> \o Fence
    ELSE IF form = "tick" THEN <<BT>> \o body \o <<BT>>
    ELSE body

\* runs of whitespace of at most MaxPad characters
Pads == UNION {[1..n -> Whitespace] : n \in 0..MaxPad}
Leads == {<<>>, <<"H", "i", ":", " ">>}
Trails == {<<>>, <<" ", "o", "k">>}

\* a response: its content, and how it was put together
Response(form, body, holds, lead, trail, pre, post) ==
    [content |-> pre \o lead \o Wrap(form, body) \o trail \o post,
     form |-> form, body |-> body, holds |-> holds, isObject |-> holds = "object",
     bare |-> lead = <<>> /\ trail = <<>> /\ pre = <<>> /\ post = <<>>,
     prose |-> lead # <<>> \/ trail # <<>>]

Responses ==
    {Response(form, b[1], b[2], lead, trail, pre, post) :
        <<form, b, lead, trail, pre, post>> \in
            Forms \X Bodies \X Leads \X Trails \X Pads \X Pads}

(***************************************************************************)
(* State.                                                                  *)
(***************************************************************************)
VARIABLES
    response,           \* the content of an oracle response handed to the parsers
    parse_out,          \* what the two parsers made of it
    template,           \* the file at the template path
    fill_data,          \* the fill data handed to the filler
    fill_out,           \* what stage3_fill_template did
    reread,             \* stage1_analyze_template on the output document
    analyses,           \* what successive runs of stage1_analyze_template on the template returned
    job,                \* the arguments of the orchestrator call
    pc,                 \* the statement the orchestrator is at
    converted,          \* the file at the path of the converted template
    processed,          \* which path the stages read the template from
    template_structure, \* what stage 1 returned
    input_data,         \* the data the job resolved
    oracle,             \* the completion requests made and their replies
    payload,            \* the content of the extraction request
    disk,               \* the job directory, the artifacts, the temporary images
    trace,              \* the stages invoked so far, in order
    result,             \* what the orchestrator returned
    http,               \* the /api/generate request and the handler's locals
    item,               \* the document item of the request
    uploads_dir,        \* the context files in the upload directory of the session
    session,            \* the ChatSession: its document items, templates and context files
    handled,            \* the request the application handled last, and its answer
    sources,            \* an attachment list and the files behind it
    assembled,          \* the request content the attachment loops made of it
    runs,               \* the position and the return value of each of two concurrent jobs
    files,              \* the files the two jobs read and write
    uploading,          \* the position of each of two concurrent template uploads
    pool                \* the shared templates directory

parseVars == <<response, parse_out>>
fillVars == <<template, fill_data, fill_out, reread, analyses>>
jobVars == <<job, pc, converted, processed, template_structure, input_data, oracle,
             payload, disk, trace, result>>
appVars == <<http, item, uploads_dir, session, handled>>
asmVars == <<sources, assembled>>
conVars == <<runs, files>>
poolVars == <<uploading, pool>>
restVars == <<http, item, uploads_dir, session, handled, sources, assembled, runs, files, uploading, pool>>
vars == <<response, parse_out, template, fill_data, fill_out, reread, analyses, job, pc, converted,
          processed, template_structure, input_data, oracle, payload, disk, trace, result,
          http, item, uploads_dir, session, handled, sources, assembled, runs, files,
          uploading, pool>>

NotRun == [run |-> FALSE]

NoResponse == [content |-> <<>>, form |-> "none", holds |-> "none"]

\* None
NoneValue == [t |-> "none", s |-> <<>>, items |-> <<>>]
NoReply == [asked |-> FALSE, kind |-> "none", response |-> NoResponse]
\* no completion request made yet; sent counts the requests of each mode
NoRequests ==
    [extraction |-> NoReply, mapping |-> NoReply,
     sent |-> [extraction |-> 0, mapping |-> 0]]
NoPayload == [text |-> <<>>, images |-> <<>>, temp_images |-> {}]
EmptyDisk ==
    [job_dir |-> FALSE, structure_json |-> FALSE, fill_data_json |-> FALSE, temp_images |-> {},
     write_failed |-> {}]
NoJob ==
    [entry |-> "none", template_ext |-> ".docx", direct_json_data |-> NoneValue,
     attachment_paths |-> <<>>, json_input |-> [exists |-> FALSE, text |-> <<>>]]

\* no request: the handler has not been entered
NoHttp ==
    [pc |-> "idle", template_ext |-> ".docx", json_data |-> <<>>,
     additional_docs |-> <<>>, next_doc |-> 1, attachment_paths |-> <<>>,
     direct_json |-> NoneValue, remove_failed |-> {}, status_code |-> 0]

\* session.document_items.get(doc_id) when the session has no such item
NoItem ==
    [exists |-> FALSE, status |-> "pending", filled_document_path |-> "None",
     error_info |-> "None"]

\* ChatSession(session_id): no document item, no template, no context file
NoSession == [document_items |-> <<>>, templates |-> <<>>, context_files |-> <<>>]
\* no request handled yet
NoRequest == [action |-> "none", doc_id |-> <<>>, status_code |-> 0, was |-> "none"]

\* no request is being handled
AppIdle ==
    /\ http = NoHttp
    /\ item = NoItem
    /\ uploads_dir = {}
    /\ session = NoSession
    /\ handled = NoRequest

\* no attachment list is being assembled
NoSources == [attachment_paths |-> <<>>, fs |-> Files]
AsmIdle == sources = NoSources /\ assembled = NotRun

\* no concurrent jobs
ConIdle == runs = <<>> /\ files = [converted |-> <<>>, expected |-> <<>>, output |-> <<>>]

\* no template upload
PoolIdle == uploading = <<>> /\ pool = [content |-> <<>>, copies |-> <<>>, rewritten |-> {}]

RestIdle == AppIdle /\ AsmIdle /\ ConIdle /\ PoolIdle

\* no orchestrator call is under way
JobIdle ==
    /\ job = NoJob
    /\ pc = "idle"
    /\ converted = NoFile
    /\ processed = "original"
    /\ template_structure = NoneValue
    /\ input_data = NoneValue
    /\ oracle = NoRequests
    /\ payload = NoPayload
    /\ disk = EmptyDisk
    /\ trace = <<>>
    /\ result = "none"

(***************************************************************************)
(* The filler and the extractor applied to every template and fill data.   *)
(***************************************************************************)
NoParses == [mapping |-> NotRun, extraction |-> NotRun]
ParseIdle == response = NoResponse /\ parse_out = NoParses

InitFill ==
    /\ ParseIdle
    /\ JobIdle
    /\ RestIdle
    /\ \E inp \in FillInputs :
        /\ template = inp.template
        /\ fill_data = inp.fill_data
    /\ fill_out = NotRun
    /\ reread = NotRun
    /\ analyses = <<>>

\* stage3_fill_template(template_path, output_path, fill_data)
FillTemplate ==
    /\ ~fill_out.run
    /\ \E save \in SaveOutcomes :
        fill_out' = [run |-> TRUE, before |-> fill_data, save |-> save,
                     res |-> Stage3FillTemplate(template, fill_data, Files, save)]
    /\ fill_data' = fill_out'.res.fill_data
    /\ UNCHANGED <<template, reread, analyses, parseVars, jobVars, restVars>>

\* the file at the output path, as stage1_analyze_template opens it
OutputFile(output) == IF output.state = "complete" THEN DocFile(output.doc) ELSE JunkFile

\* stage1_analyze_template(output_path)
AnalyzeOutput ==
    /\ fill_out.run
    /\ ~reread.run
    /\ fill_out.res.output.state # "absent"
    /\ reread' = [run |-> TRUE, res |-> Stage1AnalyzeTemplate(OutputFile(fill_out.res.output))]
    /\ UNCHANGED <<template, fill_data, fill_out, analyses, parseVars, jobVars, restVars>>

NextFill == FillTemplate \/ AnalyzeOutput

SpecFill == InitFill /\ [][NextFill]_vars
(***************************************************************************)
(* Claims about the filler and the extractor (specification SpecFill).     *)
(***************************************************************************)
TemplateStructure == Stage1AnalyzeTemplate(template).structure

\* the fill data the filler was called with has exactly the keys of the template's
\* structure, each with a string of its own
IsSentinelFill(fd) ==
    /\ KeysOf(fd) = KeysOf(TemplateStructure)
    /\ \A n \in 1..Len(fd.items) : fd.items[n].v.t = "str"
    /\ \A n, m \in 1..Len(fd.items) : n # m => fd.items[n].v # fd.items[m].v

\* C3 (as claimed): after filling with a fill data that maps exactly the keys of
\* the structure to distinct sentinel strings, the structure extracted from the
\* saved output holds exactly those sentinel strings at the same keys.
C3_FillRoundTrip ==
    (reread.run /\ ~fill_out.res.raised /\ IsSentinelFill(fill_out.before))
        => /\ ~reread.res.raised
           /\ reread.res.structure = fill_out.before

\* C4: filling with an empty fill data saves (unless doc.save itself fails) a
\* document whose extracted structure, keys, order and values, is the structure
\* extracted from the template.
C4_SparseFillIdempotent ==
    (fill_out.run /\ fill_out.before = VDict(<<>>))
        => /\ fill_out.save = "ok" =>
                ~fill_out.res.raised /\ fill_out.res.output.state = "complete"
           /\ (reread.run /\ fill_out.res.output.state = "complete") =>
                ~reread.res.raised /\ reread.res.structure = TemplateStructure

C4_Witness ==
    /\ reread.run
    /\ fill_out.before = VDict(<<>>)
    /\ fill_out.res.output.state = "complete"
    /\ Len(template.doc.tables) = MaxTables
    /\ \E n \in 1..Len(TemplateStructure.items) : TemplateStructure.items[n].v.s # <<>>

\* the keys of a fill data that are keys of the template's structure, and the others
MatchingKeys(fd) == DictKeys(fd) \cap DictKeys(TemplateStructure)
AbsentKeys(fd) == DictKeys(fd) \ DictKeys(TemplateStructure)

\* C5 (as claimed): a fill data with keys of live cells and keys the template does
\* not have (and no attachment list) is saved without a raise, every matching
\* key's cell holds its mapped value, and the unmatched keys are exactly the keys
\* the template does not have.
C5_PartialMatchTolerance ==
    (/\ fill_out.run
     /\ fill_out.save = "ok"
     /\ ~DictHas(fill_out.before, AttachmentsKey)
     /\ MatchingKeys(fill_out.before) # {}
     /\ AbsentKeys(fill_out.before) # {})
        => /\ ~fill_out.res.raised
           /\ fill_out.res.output.state = "complete"
           /\ fill_out.res.remaining_to_fill = AbsentKeys(fill_out.before)
           /\ LET visits == Visits(template.doc)
              IN  \A n \in 1..Len(visits) :
                    DictHas(fill_out.before, visits[n].key) =>
                        CellText(fill_out.res.output.doc, visits[n])
                            = PyStr(DictGet(fill_out.before, visits[n].key))

\* the number of loop visits whose key the fill data holds
VisitsFilled(fd) ==
    LET visits == Visits(template.doc)
    IN  Cardinality({n \in 1..Len(visits) : DictHas(fd, visits[n].key)})

\* C6: the reserved key is taken out of the fill data before the cells are
\* matched: it is not among the unmatched keys, it is counted neither in the
\* filled fields nor in the total the filler reports, and every cell of the result
\* holds its template text or the string of the value of one of its own cell keys.
C6_AttachmentKeyIsolation ==
    (fill_out.run /\ DictHas(fill_out.before, AttachmentsKey))
        => /\ AttachmentsKey \notin fill_out.res.remaining_to_fill
           /\ ~DictHas(fill_out.res.fill_data, AttachmentsKey)
           /\ ~fill_out.res.raised =>
                /\ fill_out.res.total = Len(fill_out.before.items) - 1
                /\ fill_out.res.filled_fields_count + Cardinality(fill_out.res.remaining_to_fill)
                        >= fill_out.res.total
                /\ fill_out.res.filled_fields_count
                        = VisitsFilled(DictPop(fill_out.before, AttachmentsKey, VList(<<>>)).rest)
                /\ LET visits == Visits(template.doc)
                   IN  \A n \in 1..Len(visits) :
                        \/ CellText(fill_out.res.doc, visits[n]) = CellText(template.doc, visits[n])
                        \/ \E m \in 1..Len(visits) :
                            /\ visits[m].i = visits[n].i /\ visits[m].c = visits[n].c
                            /\ visits[m].key # AttachmentsKey
                            /\ DictHas(fill_out.before, visits[m].key)
                            /\ CellText(fill_out.res.doc, visits[n])
                                    = PyStr(DictGet(fill_out.before, visits[m].key))

C6_Witness ==
    /\ fill_out.run
    /\ ~fill_out.res.raised
    /\ DictHas(fill_out.before, AttachmentsKey)
    /\ Truthy(DictGet(fill_out.before, AttachmentsKey))
    /\ fill_out.res.filled_fields_count > 1
    /\ fill_out.res.remaining_to_fill # {}
(***************************************************************************)
(* The two response parsers applied to every response.                     *)
(***************************************************************************)
FillIdle ==
    /\ template = NoFile
    /\ fill_data = EmptyDict
    /\ fill_out = NotRun
    /\ reread = NotRun
    /\ analyses = <<>>

InitParse ==
    /\ response \in Responses
    /\ parse_out = NoParses
    /\ FillIdle
    /\ JobIdle
    /\ RestIdle

\* the response read as stage2_5_ai_generate_fill_data reads it
ParseFillData ==
    /\ ~parse_out.mapping.run
    /\ parse_out' = [parse_out EXCEPT !.mapping =
            [run |-> TRUE,
             fill_data |-> Stage2_5GenerateFillData(Reply("message", response.content))]]
    /\ UNCHANGED <<response, fillVars, jobVars, restVars>>

\* the response read as stage2_1_ai_extract_data_from_sources reads it
ParseExtractedData ==
    /\ ~parse_out.extraction.run
    /\ parse_out' = [parse_out EXCEPT !.extraction =
            [run |-> TRUE,
             res |-> Stage2_1ExtractData(Reply("message", response.content))]]
    /\ UNCHANGED <<response, fillVars, jobVars, restVars>>

NextParse == ParseFillData \/ ParseExtractedData

SpecParse == InitParse /\ [][NextParse]_vars

\* the three forms of the claim: the JSON text itself, in a labelled code block,
\* and between backticks (one or three, no label)
ClaimedForms == {"raw", "labelled", "plain", "tick"}

\* C7 (as claimed): a JSON object delivered raw, in a labelled code block or
\* between plain backticks (nothing before or after it) is recovered by the
\* field-mapping parser and by the extraction parser alike.
C7_ResponseRecovery ==
    (response.form \in ClaimedForms /\ response.isObject /\ response.bare)
        => /\ parse_out.mapping.run =>
                parse_out.mapping.fill_data = JsonLoads(response.body).val
           /\ parse_out.extraction.run =>
                /\ ~parse_out.extraction.res.raised
                /\ parse_out.extraction.res.data = JsonLoads(response.body).val
(***************************************************************************)
(* The orchestrator: run_generation and run_complete_workflow, one action  *)
(* for every stage.                                                        *)
(***************************************************************************)
\* a legacy (.doc) file holding a document: Document() rejects it
LegacyFile(doc) == [exists |-> TRUE, readable |-> FALSE, doc |-> doc]

\* doc_template_path.lower()
Lower(ext) == IF ext = ".DOC" THEN ".doc" ELSE ext

\* the test of stage 0
NeedsConversion(entry, ext) ==
    IF entry = "run_generation" THEN Lower(ext) = ".doc" ELSE ext = ".doc"

\* what the conversion can come to: no LibreOffice found, the command fails or
\* leaves no file, the command writes the converted file
ConvertOutcomes == {"no_office", "fails", "ok"}

\* convert_doc_to_docx(doc_path): a raise or the converted file, and the files at
\* the two paths afterwards.  docx_path is doc_path with every ".doc" replaced, so
\* for a path without ".doc" it is doc_path itself, and the file there is removed
\* before the command runs.
ConvertDocToDocx(file, ext, outcome) ==
    LET same_path == ext # ".doc"
        kept == IF same_path THEN NoFile ELSE file
    IN  IF ~file.exists \/ outcome = "no_office"
        THEN [raised |-> TRUE, template |-> file, converted |-> NoFile]
        ELSE IF same_path \/ outcome = "fails"
        THEN [raised |-> TRUE, template |-> kept, converted |-> NoFile]
        ELSE [raised |-> FALSE, template |-> file, converted |-> DocFile(file.doc)]

\* stage2_load_json_data(json_file_path): the data, or a raise
Stage2LoadJsonData(file) ==
    LET loaded == JsonLoads(file.text)
    IN  IF ~file.exists \/ ~loaded.ok \/ loaded.val.t # "dict"
        THEN [raised |-> TRUE, data |-> EmptyDict]
        ELSE [raised |-> FALSE, data |-> loaded.val]

\* a choice of the source that goes on with the empty input_data when there is
\* neither data nor attachment
DataSourceOrEmpty(direct_json_data, attachment_paths) ==
    IF Truthy(direct_json_data) THEN "direct"
    ELSE IF attachment_paths # <<>> THEN "attachments"
    ELSE "direct"

\* the if / elif / else of run_generation that picks the source of the data
DataSource(direct_json_data, attachment_paths) ==
    IF Truthy(direct_json_data) THEN "direct"
    ELSE IF attachment_paths # <<>> THEN "attachments"
    ELSE "none"

\* a statement order with the field mapping ahead of the data resolution
StageAfterMappingFirst(stage) ==
    CASE stage = "start" -> "stage0"
      [] stage = "stage0" -> "stage1"
      [] stage = "stage1" -> "stage2_5"
      [] stage = "stage2_5" -> "stage2"
      [] stage = "stage2" -> "stage3"
      [] stage = "stage3" -> "done"

\* the statement order of the two orchestrators
StageAfter(stage) ==
    CASE stage = "start" -> "stage0"
      [] stage = "stage0" -> "stage1"
      [] stage = "stage1" -> "stage2"
      [] stage = "stage2" -> "stage2_5"
      [] stage = "stage2_5" -> "stage3"
      [] stage = "stage3" -> "done"

ProcessedFile == IF processed = "converted" THEN converted ELSE template

(***************************************************************************)
(* The orchestrator calls of the model.                                    *)
(***************************************************************************)
Entries == {"run_generation", "run_complete_workflow"}

\* a template without tables, one of plain cells, one with a merged cell
JobTemplates ==
    {Doc(<<>>, 0),
     Doc(<<MakeTable("label", 1, "plain", 1, MaxCols)>>, 1),
     Doc(<<MakeTable("mixed", 1, "hmerge", 1, MaxCols)>>, 1)}
LegacyTemplate == LegacyFile(Doc(<<MakeTable("label", 1, "plain", 1, MaxCols)>>, 1))

\* the extension of the template path and the file at it
TemplateChoices ==
    {<<".docx", DocFile(d)>> : d \in JobTemplates}
        \cup {<<".docx", JunkFile>>, <<".docx", NoFile>>, <<".doc", LegacyTemplate>>,
              <<".DOC", LegacyTemplate>>, <<".doc", NoFile>>}

InputData == VDict(<<Item(<<"name">>, VStr(<<"N">>))>>)
DirectChoices == {NoneValue, EmptyDict, InputData}
AttachmentPathChoices ==
    {<<>>, <<TextPath>>, <<MissingPath, OtherPath>>,
     <<PdfPath, MissingPath, ImagePath, BrokenImagePath, OtherPath>>}

JsonFile(text) == [exists |-> TRUE, text |-> text]
NoJsonFile == [exists |-> FALSE, text |-> <<>>]
JsonInputs ==
    {NoJsonFile, JsonFile(JsonText(InputData)), JsonFile(<<"n", "o">>),
     JsonFile(JsonText(VList(<<VStr(<<"k">>)>>)))}

Requests ==
    {[entry |-> "run_generation", template_ext |-> "", direct_json_data |-> d,
      attachment_paths |-> a, json_input |-> NoJsonFile] :
        <<d, a>> \in DirectChoices \X AttachmentPathChoices}
    \cup {[entry |-> "run_complete_workflow", template_ext |-> "",
           direct_json_data |-> NoneValue, attachment_paths |-> <<>>, json_input |-> j] :
            j \in JsonInputs}

\* the responses an oracle gives in a job: every body as it is, an object also in
\* a labelled code block, a text that holds no object in every wrapping
JobResponses ==
    {r \in Responses :
        /\ r.bare
        /\ \/ r.form = "raw"
           \/ r.form = "labelled" /\ r.holds = "object"
           \/ r.holds = "none"}

\* the completion request raises, answers without choices, or answers
Answers ==
    {[asked |-> TRUE, kind |-> "raises", response |-> NoResponse],
     [asked |-> TRUE, kind |-> "no_choices", response |-> NoResponse],
     [asked |-> TRUE, kind |-> "message", response |-> NoResponse]}
        \cup {[asked |-> TRUE, kind |-> "message", response |-> r] : r \in JobResponses}

Init ==
    /\ ParseIdle
    /\ RestIdle
    /\ reread = NotRun
    /\ analyses = <<>>
    /\ fill_out = NotRun
    /\ fill_data = NoneValue
    /\ \E t \in TemplateChoices, r \in Requests :
        /\ template = t[2]
        /\ job = [r EXCEPT !.template_ext = t[1]]
        /\ pc = IF r.entry = "run_complete_workflow" THEN "start" ELSE "stage0"
    /\ converted = NoFile
    /\ processed = "original"
    /\ template_structure = NoneValue
    /\ input_data = NoneValue
    /\ oracle = NoRequests
    /\ payload = NoPayload
    /\ disk = EmptyDisk
    /\ trace = <<>>
    /\ result = "none"

idleVars == <<response, parse_out, reread, analyses, restVars>>

\* an except clause that leaves the job at the failed statement, to run it again
FailedRetry(events) ==
    /\ pc' = pc
    /\ UNCHANGED result
    /\ trace' = trace \o events

\* the except clause of the orchestrator: return False
Failed(events) ==
    /\ pc' = "failed"
    /\ result' = "False"
    /\ trace' = trace \o events \o <<"failed">>

\* the next statement of the orchestrator
Proceed(events) ==
    /\ pc' = StageAfter(pc)
    /\ trace' = trace \o events
    /\ UNCHANGED result

\* run_complete_workflow: os.makedirs(job_dir), before the try
MakeJobDir ==
    /\ pc = "start"
    /\ \E made \in BOOLEAN :
        IF made
        THEN /\ disk' = [disk EXCEPT !.job_dir = TRUE]
             /\ pc' = StageAfter(pc)
             /\ UNCHANGED result
        ELSE /\ pc' = "raised"
             /\ result' = "exception"
             /\ UNCHANGED disk
    /\ UNCHANGED <<idleVars, template, fill_data, fill_out, job, converted, processed,
                   template_structure, input_data, oracle, payload, trace>>

\* stage 0, the template path does not end in .doc
SkipConversion ==
    /\ pc = "stage0"
    /\ ~NeedsConversion(job.entry, job.template_ext)
    /\ Proceed(<<>>)
    /\ UNCHANGED <<idleVars, template, fill_data, fill_out, job, converted, processed,
                   template_structure, input_data, oracle, payload, disk>>

\* stage 0, convert_doc_to_docx(doc_template_path)
ConvertTemplate ==
    /\ pc = "stage0"
    /\ NeedsConversion(job.entry, job.template_ext)
    /\ \E outcome \in ConvertOutcomes :
        LET res == ConvertDocToDocx(template, job.template_ext, outcome)
        IN  /\ template' = res.template
            /\ converted' = res.converted
            /\ IF res.raised
               THEN Failed(<<"stage0">>) /\ UNCHANGED processed
               ELSE Proceed(<<"stage0">>) /\ processed' = "converted"
    /\ UNCHANGED <<idleVars, fill_data, fill_out, job, template_structure, input_data,
                   oracle, payload, disk>>

\* stage 1, stage1_analyze_template(processed_template_path); run_complete_workflow
\* then writes the structure to the job directory, and goes on if it cannot
AnalyzeTemplate ==
    /\ pc = "stage1"
    /\ LET res == Stage1AnalyzeTemplate(ProcessedFile)
       IN  IF res.raised
           THEN Failed(<<"stage1">>) /\ UNCHANGED <<template_structure, disk>>
           ELSE /\ Proceed(<<"stage1">>)
                /\ template_structure' = res.structure
                /\ IF job.entry = "run_complete_workflow"
                   THEN \E written \in BOOLEAN :
                            disk' = [disk EXCEPT
                                        !.structure_json = written /\ disk.job_dir,
                                        !.write_failed =
                                            IF written THEN @ ELSE @ \cup {"structure_json"}]
                   ELSE UNCHANGED disk
    /\ UNCHANGED <<idleVars, template, fill_data, fill_out, job, converted, processed,
                   input_data, oracle, payload>>

\* run_generation, if direct_json_data
UseDirectData ==
    /\ pc = "stage2"
    /\ job.entry = "run_generation"
    /\ DataSource(job.direct_json_data, job.attachment_paths) = "direct"
    /\ input_data' = job.direct_json_data
    /\ Proceed(<<"direct">>)
    /\ UNCHANGED <<idleVars, template, fill_data, fill_out, job, converted, processed,
                   template_structure, oracle, payload, disk>>

\* run_generation, elif attachment_paths: stage2_1_ai_extract_data_from_sources
ExtractFromSources ==
    /\ pc = "stage2"
    /\ job.entry = "run_generation"
    /\ DataSource(job.direct_json_data, job.attachment_paths) = "attachments"
    /\ payload' = AssembleContext(job.attachment_paths, Files)
    /\ disk' = [disk EXCEPT !.temp_images = payload'.temp_images]
    /\ \E answer \in Answers :
        LET res == Stage2_1ExtractData(Reply(answer.kind, answer.response.content))
        IN  /\ oracle' = [oracle EXCEPT !.extraction = answer, !.sent.extraction = @ + 1]
            /\ IF res.raised
               THEN Failed(<<"stage2_1">>) /\ UNCHANGED input_data
               ELSE Proceed(<<"stage2_1">>) /\ input_data' = res.data
    /\ UNCHANGED <<idleVars, template, fill_data, fill_out, job, converted, processed,
                   template_structure>>

\* run_generation, else: raise ValueError
RejectNoDataSource ==
    /\ pc = "stage2"
    /\ job.entry = "run_generation"
    /\ DataSource(job.direct_json_data, job.attachment_paths) = "none"
    /\ Failed(<<>>)
    /\ UNCHANGED <<idleVars, template, fill_data, fill_out, job, converted, processed,
                   template_structure, input_data, oracle, payload, disk>>

\* run_complete_workflow: stage2_load_json_data(json_input_path)
LoadJsonData ==
    /\ pc = "stage2"
    /\ job.entry = "run_complete_workflow"
    /\ LET res == Stage2LoadJsonData(job.json_input)
       IN  IF res.raised
           THEN Failed(<<"stage2_load">>) /\ UNCHANGED input_data
           ELSE Proceed(<<"stage2_load">>) /\ input_data' = res.data
    /\ UNCHANGED <<idleVars, template, fill_data, fill_out, job, converted, processed,
                   template_structure, oracle, payload, disk>>

\* stage 2.5, stage2_5_ai_generate_fill_data(template_structure, input_data);
\* run_complete_workflow then writes a fill data that is not empty to the job
\* directory, and goes on if it cannot
GenerateFillData ==
    /\ pc = "stage2_5"
    /\ \E answer \in Answers :
        /\ oracle' = [oracle EXCEPT !.mapping = answer, !.sent.mapping = @ + 1]
        /\ fill_data' = Stage2_5GenerateFillData(Reply(answer.kind, answer.response.content))
    /\ IF job.entry = "run_complete_workflow" /\ Truthy(fill_data')
       THEN \E written \in BOOLEAN :
                disk' = [disk EXCEPT
                            !.fill_data_json = written /\ disk.job_dir,
                            !.write_failed = IF written THEN @ ELSE @ \cup {"fill_data_json"}]
       ELSE UNCHANGED disk
    /\ Proceed(<<"stage2_5">>)
    /\ UNCHANGED <<idleVars, template, fill_out, job, converted, processed,
                   template_structure, input_data, payload>>

\* stage 3, stage3_fill_template(processed_template_path, output_path, fill_data),
\* and the return of the orchestrator
FillAndReturn ==
    /\ pc = "stage3"
    /\ \E save \in SaveOutcomes :
        fill_out' = [run |-> TRUE, before |-> fill_data, save |-> save,
                     res |-> Stage3FillTemplate(ProcessedFile, fill_data, Files, save)]
    /\ fill_data' = fill_out'.res.fill_data
    /\ IF fill_out'.res.raised
       THEN Failed(<<"stage3">>)
       ELSE /\ pc' = StageAfter(pc)
            /\ result' = "True"
            /\ trace' = Append(trace, "stage3")
    /\ UNCHANGED <<idleVars, template, job, converted, processed, template_structure,
                   input_data, oracle, payload, disk>>

Next ==
    \/ MakeJobDir
    \/ SkipConversion
    \/ ConvertTemplate
    \/ AnalyzeTemplate
    \/ UseDirectData
    \/ ExtractFromSources
    \/ RejectNoDataSource
    \/ LoadJsonData
    \/ GenerateFillData
    \/ FillAndReturn

Spec == Init /\ [][Next]_vars
(***************************************************************************)
(* Claims about the orchestrator (specification Spec).                     *)
(***************************************************************************)
\* the place of a trace entry in the order structure extraction, data
\* resolution, field mapping, fill
StageRank(event) ==
    CASE event = "stage0" -> 0
      [] event = "stage1" -> 1
      [] event \in {"direct", "stage2_1", "stage2_load"} -> 2
      [] event = "stage2_5" -> 3
      [] event = "stage3" -> 4
      [] event = "failed" -> 5

Invoked(tr, event) == \E n \in 1..Len(tr) : tr[n] = event
DataResolved(tr) == \E n \in 1..Len(tr) : StageRank(tr[n]) = 2

\* the states of a job in the order the specification gives them
JobOrder == <<"stage0", "stage1", "stage2", "stage2_5", "stage3", "done">>

\* C1: every step of a job keeps the stages in the order structure extraction,
\* data resolution, field mapping, fill, each at most once and nothing after a
\* failure; the mapping oracle is invoked only when the structure and the input
\* data have been obtained, the filler only when the mapping call has returned;
\* a step leads to the next state of the order or to Failed with the return
\* value False, and no step leaves Failed or Done.
C1_StageOrder ==
    [][/\ \A n \in 1..(Len(trace') - 1) : StageRank(trace'[n]) < StageRank(trace'[n + 1])
       /\ (Invoked(trace', "stage2_5") /\ ~Invoked(trace, "stage2_5"))
            => /\ Invoked(trace, "stage1") /\ template_structure # NoneValue
               /\ DataResolved(trace) /\ input_data # NoneValue
               /\ ~oracle.mapping.asked
       /\ (Invoked(trace', "stage3") /\ ~Invoked(trace, "stage3"))
            => /\ Invoked(trace, "stage2_5") /\ oracle.mapping.asked
               /\ fill_data # NoneValue
               /\ ~fill_out.run
       /\ pc \notin {"failed", "done", "raised"}
       /\ pc \in {JobOrder[n] : n \in 1..5}
            => \/ pc' = "failed" /\ result' = "False"
               \/ \E n \in 1..5 : pc = JobOrder[n] /\ pc' = JobOrder[n + 1]
       /\ pc' = "done" => result' = "True" /\ fill_out'.run
      ]_vars

C1_Witness ==
    /\ pc = "done"
    /\ trace = <<"stage0", "stage1", "stage2_1", "stage2_5", "stage3">>
    /\ oracle.extraction.asked
    /\ oracle.mapping.asked

\* C2: in a run_generation job with neither data nor attachments no oracle is
\* ever invoked, the filler never runs (no output document is written), the job
\* gets no further than the choice of the data source, and it ends Failed with
\* the return value False.
C2_NoDataSourceRejected ==
    (/\ job.entry = "run_generation"
     /\ ~Truthy(job.direct_json_data)
     /\ job.attachment_paths = <<>>)
        => /\ ~oracle.extraction.asked
           /\ ~oracle.mapping.asked
           /\ ~fill_out.run
           /\ input_data = NoneValue
           /\ pc \in {"stage0", "stage1", "stage2", "failed"}
           /\ result = IF pc = "failed" THEN "False" ELSE "none"

C2_Witness ==
    /\ job.entry = "run_generation"
    /\ job.direct_json_data = EmptyDict
    /\ job.attachment_paths = <<>>
    /\ template_structure # NoneValue
    /\ pc = "failed"
    /\ result = "False"

\* the oracle answered with a text that holds no JSON object
NoObject(answer) ==
    /\ answer.asked
    /\ answer.kind = "message"
    /\ answer.response.form # "none"
    /\ answer.response.holds = "none"

\* C8: when the field-mapping response holds no JSON object the mapping returns
\* the empty fill data, the job goes on to the filler, and unless doc.save itself
\* fails it ends with the return value True, a complete output and no field
\* filled; when the extraction response holds no JSON object the job ends Failed
\* and neither the mapping oracle nor the filler is invoked.
C8_UnparseableSoftOrHard ==
    /\ NoObject(oracle.mapping)
        => /\ fill_data = EmptyDict
           /\ pc \in {"stage3", "done", "failed"}
           /\ pc # "stage3" => fill_out.run /\ fill_out.before = EmptyDict
           /\ (fill_out.run /\ fill_out.save = "ok")
                => /\ pc = "done" /\ result = "True"
                   /\ fill_out.res.output.state = "complete"
                   /\ fill_out.res.filled_fields_count = 0
           /\ pc = "failed" => fill_out.run /\ fill_out.save # "ok"
    /\ NoObject(oracle.extraction)
        => /\ pc = "failed" /\ result = "False"
           /\ input_data = NoneValue
           /\ ~oracle.mapping.asked
           /\ ~fill_out.run

C8_Witness ==
    /\ NoObject(oracle.mapping)
    /\ oracle.mapping.response.form = "labelled"
    /\ pc = "done"
    /\ result = "True"
    /\ fill_out.res.doc.tables # <<>>
    /\ fill_out.res.filled_fields_count = 0

\* C9 (as claimed): whenever the completion request of the extraction or of the
\* field mapping raises, the job ends Failed, the filler is not run and no output
\* document is produced.
C9_OracleFailureFatal ==
    (oracle.extraction.kind = "raises" \/ oracle.mapping.kind = "raises")
        => /\ pc = "failed" /\ result = "False"
           /\ ~fill_out.run

\* the file at the output path
OutputOfJob == IF fill_out.run THEN fill_out.res.output ELSE NoOutput

\* C10 (as claimed): the output path holds a completely written document and the
\* job reports success, or it holds no file written by the job; a job that
\* reports failure leaves no file there.
C10_NoHalfWrittenOutput ==
    /\ OutputOfJob.state \in {"absent", "complete"}
    /\ OutputOfJob.state = "complete" => result = "True"
    /\ result = "False" => OutputOfJob.state = "absent"

\* the job stopped in stage 1: the template could not be opened or read
TemplateUnreadable ==
    /\ Len(trace) >= 2
    /\ trace[Len(trace) - 1] = "stage1"
    /\ trace[Len(trace)] = "failed"

\* C11 (as claimed): a job whose template cannot be read ends Failed with no
\* oracle request sent, no output written, and no job directory or artifact
\* created.
C11_TemplateUnreadableNoSideEffect ==
    TemplateUnreadable
        => /\ pc = "failed" /\ result = "False"
           /\ oracle.sent.extraction = 0 /\ oracle.sent.mapping = 0
           /\ ~fill_out.run
           /\ ~disk.job_dir
           /\ ~disk.structure_json /\ ~disk.fill_data_json

\* the part of C11 that holds: all of it for run_generation, and all but the job
\* directory for run_complete_workflow
C11_Scope ==
    TemplateUnreadable
        => /\ pc = "failed" /\ result = "False"
           /\ oracle.sent.extraction = 0 /\ oracle.sent.mapping = 0
           /\ ~fill_out.run
           /\ ~disk.structure_json /\ ~disk.fill_data_json
           /\ disk.job_dir <=> job.entry = "run_complete_workflow"

\* the request of a mode came to nothing: it raised or brought no choice
RequestFailed(answer) == answer.asked /\ answer.kind \in {"raises", "no_choices"}

\* C12: no step of a job brings the requests of a mode above one, a request
\* that failed is not sent again, and a job that has ended sends nothing.
C12_SingleRequest ==
    [][/\ oracle'.sent.extraction <= 1
       /\ oracle'.sent.mapping <= 1
       /\ RequestFailed(oracle.extraction)
            => oracle'.sent.extraction = oracle.sent.extraction
       /\ RequestFailed(oracle.mapping)
            => oracle'.sent.mapping = oracle.sent.mapping
       /\ pc \in {"failed", "done", "raised"} => oracle' = oracle
       /\ oracle'.extraction.asked <=> oracle'.sent.extraction = 1
       /\ oracle'.mapping.asked <=> oracle'.sent.mapping = 1
      ]_vars

C12_Witness ==
    /\ oracle.sent.extraction = 1
    /\ oracle.sent.mapping = 1
    /\ RequestFailed(oracle.mapping)
    /\ pc = "done"

(***************************************************************************)
(* The handler of /api/generate (specification SpecGenerate): the request  *)
(* is handled statement by statement, and between the call of              *)
(* run_generation and its return the job takes the steps of Spec.          *)
(***************************************************************************)
\* DocumentItem.__init__: status "待处理", no document, no error
NewItem ==
    [exists |-> TRUE, status |-> "pending", filled_document_path |-> "None",
     error_info |-> "None"]

\* an item a request before this one has completed
CompletedItem ==
    [exists |-> TRUE, status |-> "completed", filled_document_path |-> "earlier",
     error_info |-> "None"]

\* the template_path of the form: a document with one table, a legacy document
GenerateTemplates ==
    {<<".docx", DocFile(Doc(<<MakeTable("label", 1, "plain", 1, MaxCols)>>, 1))>>,
     <<".doc", LegacyTemplate>>}

\* the json_data of the form: nothing, the empty object, an object, the empty
\* object with a space in it, a text that is no JSON, the empty list
JsonDataChoices ==
    {<<>>, <<"{", "}">>, JsonText(InputData), <<"{", " ", "}">>, <<"n", "o">>,
     <<"[", "]">>, <<" ", "{", "}", NL>>}

\* the requests of the model: an item the session does not have; no file and
\* every json_data; files, with and without an object in json_data
GenerateRequests ==
    {[item |-> NoItem, json_data |-> JsonText(InputData), additional_docs |-> <<>>]}
    \cup {[item |-> NewItem, json_data |-> j, additional_docs |-> <<>>] :
            j \in JsonDataChoices}
    \cup {[item |-> CompletedItem, json_data |-> <<"{", "}">>, additional_docs |-> <<>>]}
    \cup {[item |-> i, json_data |-> j, additional_docs |-> u] :
            <<i, j, u>> \in {NewItem, CompletedItem} \X {<<>>, JsonText(InputData)}
                                \X {<<TextPath>>, <<PdfPath, ImagePath>>}}

InitGenerate ==
    /\ ParseIdle
    /\ JobIdle
    /\ fill_data = NoneValue
    /\ fill_out = NotRun
    /\ reread = NotRun
    /\ analyses = <<>>
    /\ uploads_dir = {}
    /\ session = NoSession
    /\ handled = NoRequest
    /\ AsmIdle
    /\ ConIdle
    /\ PoolIdle
    /\ \E t \in GenerateTemplates, r \in GenerateRequests :
        /\ template = t[2]
        /\ item = r.item
        /\ http = [NoHttp EXCEPT !.pc = "lookup", !.template_ext = t[1],
                                 !.json_data = r.json_data,
                                 !.additional_docs = r.additional_docs]

\* raise HTTPException(status_code) and every exception the handler lets through,
\* which the framework answers with 500
HttpRaise(status_code) == http' = [http EXCEPT !.pc = "raised", !.status_code = status_code]

\* session.document_items.get(doc_id), 404 when there is none
FindItem ==
    /\ http.pc = "lookup"
    /\ IF item.exists
       THEN http' = [http EXCEPT !.pc = "save"]
       ELSE HttpRaise(404)
    /\ UNCHANGED <<item, uploads_dir, session, handled, asmVars, conVars, poolVars, parseVars, fillVars, jobVars>>

\* what writing an uploaded file can come to
WriteOutcomes == {"saved", "open_fails", "write_fails"}

\* one pass of the loop that saves the uploaded files; a file that cannot be
\* opened or written ends the handler with the exception
SaveContextFile ==
    /\ http.pc = "save"
    /\ http.next_doc <= Len(http.additional_docs)
    /\ \E outcome \in WriteOutcomes :
        LET file_path == http.additional_docs[http.next_doc]
        IN  /\ uploads_dir' = IF outcome = "open_fails" THEN uploads_dir
                              ELSE uploads_dir \cup {file_path}
            /\ IF outcome = "saved"
               THEN http' = [http EXCEPT !.next_doc = @ + 1,
                                         !.attachment_paths = Append(@, file_path)]
               ELSE HttpRaise(500)
    /\ UNCHANGED <<item, session, handled, asmVars, conVars, poolVars, parseVars, fillVars, jobVars>>

\* a handler that takes every request on to run_generation, whatever its json_data
DecideDataSourceLenient ==
    /\ http.pc = "save"
    /\ http.next_doc > Len(http.additional_docs)
    /\ \E loaded \in {JsonLoads(http.json_data)} :
        http' = [http EXCEPT !.pc = "mkdir",
                             !.direct_json = IF http.attachment_paths = <<>> /\ loaded.ok
                                             THEN loaded.val ELSE NoneValue]
    /\ UNCHANGED <<item, uploads_dir, session, handled, asmVars, conVars, poolVars, parseVars, fillVars, jobVars>>

\* "2. Decide on the data source": with no attachment the json_data that is
\* neither blank nor "{}" is parsed, 400 when it cannot be or when there is none
DecideDataSource ==
    /\ http.pc = "save"
    /\ http.next_doc > Len(http.additional_docs)
    /\ IF http.attachment_paths # <<>>
       THEN http' = [http EXCEPT !.pc = "mkdir"]
       ELSE IF Strip(http.json_data) \in {<<>>, <<"{", "}">>}
       THEN HttpRaise(400)
       ELSE \E loaded \in {JsonLoads(http.json_data)} :
                IF loaded.ok
                THEN http' = [http EXCEPT !.pc = "mkdir", !.direct_json = loaded.val]
                ELSE HttpRaise(400)
    /\ UNCHANGED <<item, uploads_dir, session, handled, asmVars, conVars, poolVars, parseVars, fillVars, jobVars>>

\* output_dir.mkdir(exist_ok=True), before the try
MakeOutputDir ==
    /\ http.pc = "mkdir"
    /\ \E made \in BOOLEAN :
        IF made THEN http' = [http EXCEPT !.pc = "call"] ELSE HttpRaise(500)
    /\ UNCHANGED <<item, uploads_dir, session, handled, asmVars, conVars, poolVars, parseVars, fillVars, jobVars>>

\* ai_generator.run_generation(template_path, output_path, attachment_paths,
\* direct_json)
CallRunGeneration ==
    /\ http.pc = "call"
    /\ pc = "idle"
    /\ http' = [http EXCEPT !.pc = "running"]
    /\ job' = [entry |-> "run_generation", template_ext |-> http.template_ext,
               direct_json_data |-> http.direct_json,
               attachment_paths |-> http.attachment_paths, json_input |-> NoJsonFile]
    /\ pc' = "stage0"
    /\ UNCHANGED <<item, uploads_dir, session, handled, asmVars, conVars, poolVars, parseVars, fillVars, converted, processed,
                   template_structure, input_data, oracle, payload, disk, trace, result>>

\* the paths of a list
PathsOf(paths) == {paths[n] : n \in 1..Len(paths)}

\* run_generation has returned: the item takes the outcome, the finally clause
\* removes the context files (a file os.remove raises OSError on stays), and the
\* handler returns the dashboard
FinishGeneration ==
    /\ http.pc = "running"
    /\ pc \in {"done", "failed"}
    /\ item' = IF result = "True"
               THEN [item EXCEPT !.status = "completed", !.filled_document_path = "output"]
               ELSE [item EXCEPT !.status = "failed", !.error_info = "message"]
    /\ \E kept \in SUBSET PathsOf(http.attachment_paths) :
        /\ uploads_dir' = uploads_dir \ (PathsOf(http.attachment_paths) \ kept)
        /\ http' = [http EXCEPT !.pc = "returned", !.status_code = 200,
                                !.remove_failed = kept]
    /\ UNCHANGED <<session, handled, asmVars, conVars, poolVars, parseVars, fillVars, jobVars>>

NextGenerate ==
    \/ FindItem
    \/ SaveContextFile
    \/ DecideDataSource
    \/ MakeOutputDir
    \/ CallRunGeneration
    \/ SkipConversion
    \/ ConvertTemplate
    \/ AnalyzeTemplate
    \/ UseDirectData
    \/ ExtractFromSources
    \/ RejectNoDataSource
    \/ GenerateFillData
    \/ FillAndReturn
    \/ FinishGeneration

SpecGenerate == InitGenerate /\ [][NextGenerate]_vars

\* C13 (as claimed): when the handler has ended, every context file it saved
\* has been deleted, whatever run_generation came to.
C13_ContextFilesRemoved ==
    http.pc \in {"returned", "raised"} => uploads_dir = {}

\* the part of C13 that holds: after the return of run_generation the files left
\* are those os.remove failed on
C13_Scope ==
    http.pc = "returned" => uploads_dir = http.remove_failed

\* the literal data of the request: the json_data of the form read as JSON
LiteralData == JsonLoads(http.json_data)
LiteralSupplied == LiteralData.ok /\ Truthy(LiteralData.val)

\* C17 (as claimed): whenever the request supplies literal data, the job the
\* handler starts is given that data, resolves it as its input data unchanged,
\* and neither assembles a context nor sends an extraction request, even when
\* files are uploaded with it.
C17_LiteralDataPrecedence ==
    (LiteralSupplied /\ http.pc \in {"running", "returned"})
        => /\ job.direct_json_data = LiteralData.val
           /\ oracle.sent.extraction = 0
           /\ payload = NoPayload
           /\ DataResolved(trace) => input_data = LiteralData.val

\* the part of C17 that holds: run_generation uses the direct_json_data it is
\* given, when it is not empty, whatever the attachment_paths (under Spec and
\* SpecGenerate), and the handler passes the literal data on when no file is
\* uploaded
C17_Scope ==
    /\ (job.entry = "run_generation" /\ Truthy(job.direct_json_data))
        => /\ oracle.sent.extraction = 0
           /\ payload = NoPayload
           /\ DataResolved(trace) => input_data = job.direct_json_data
    /\ (LiteralSupplied /\ http.pc \in {"running", "returned"}
            /\ http.additional_docs = <<>>)
        => job.direct_json_data = LiteralData.val

(***************************************************************************)
(* The attachment loops of stage 2.1 applied to every attachment list      *)
(* (specification SpecAssemble).                                           *)
(***************************************************************************)
MaxAttachments == 2

\* no image of the paginated document fails
NoBadImage == <<-1, -1>>

\* the paginated document yields every image, fails at its first image, or fails
\* at the image of its second page
FileSystems == {[Files EXCEPT !.pdf.bad_image = bad] : bad \in {NoBadImage, <<0, 0>>, <<1, 0>>}}

AttachmentPaths == {ImagePath, BrokenImagePath, TextPath, MissingPath, PdfPath, OtherPath}

AttachmentLists ==
    UNION {[1..n -> AttachmentPaths] : n \in 0..MaxAttachments}

InitAssemble ==
    /\ ParseIdle
    /\ FillIdle
    /\ JobIdle
    /\ AppIdle
    /\ ConIdle
    /\ PoolIdle
    /\ \E paths \in AttachmentLists, fs \in FileSystems :
        sources = [attachment_paths |-> paths, fs |-> fs]
    /\ assembled = NotRun

\* the two loops of stage2_1_ai_extract_data_from_sources over attachment_paths
Assemble ==
    /\ ~assembled.run
    /\ assembled' = [run |-> TRUE, raised |-> FALSE,
                     res |-> AssembleContext(sources.attachment_paths, sources.fs)]
    /\ UNCHANGED <<sources, appVars, conVars, poolVars, parseVars, fillVars, jobVars>>

NextAssemble == Assemble

SpecAssemble == InitAssemble /\ [][NextAssemble]_vars

\* the attachment is of no supported kind, or reading it fails
Unusable(file_path, fs) ==
    \/ ~CanRead(fs, file_path)
    \/ /\ Extension(file_path) \notin TextExtensions \cup {<<".docx">>, <<".pdf">>}
       /\ ~IsImagePath(file_path)
    \/ /\ Extension(file_path) = <<".pdf">>
       /\ PdfImagesFrom(fs.pdf, Basename(file_path), 0, 0, <<>>).raised

\* the content of an attachment that can be used: the text of a text file, the
\* image itself, the text and every image of a paginated document
ContentOf(file_path, fs) ==
    IF IsImagePath(file_path) THEN [text |-> <<>>, images |-> <<file_path>>]
    ELSE IF Extension(file_path) = <<".pdf">>
    THEN [text |-> <<TextPart(Basename(file_path))>>,
          images |-> PdfImagesFrom([fs.pdf EXCEPT !.bad_image = NoBadImage],
                                   Basename(file_path), 0, 0, <<>>).images]
    ELSE [text |-> <<TextPart(Basename(file_path))>>, images |-> <<>>]

RECURSIVE UsableContent(_, _, _)
\* the contents of the usable attachments from entry n on, in the order of the list
UsableContent(attachment_paths, n, fs) ==
    IF n > Len(attachment_paths) THEN [text |-> <<>>, images |-> <<>>]
    ELSE LET tail == UsableContent(attachment_paths, n + 1, fs)
             head == IF Unusable(attachment_paths[n], fs)
                     THEN [text |-> <<>>, images |-> <<>>]
                     ELSE ContentOf(attachment_paths[n], fs)
         IN  [text |-> head.text \o tail.text, images |-> head.images \o tail.images]

\* C14 (as claimed): the assembly does not raise, and its request content is
\* the content of the usable attachments in the order of the list: an
\* attachment that fails or is unsupported adds neither text nor image.
C14_AttachmentDegradation ==
    assembled.run
        => /\ ~assembled.raised
           /\ assembled.res.text = UsableContent(sources.attachment_paths, 1, sources.fs).text
           /\ assembled.res.images
                = UsableContent(sources.attachment_paths, 1, sources.fs).images

\* the part of C14 that holds: all of it unless a paginated document fails after
\* an image of it has been written
C14_Scope ==
    (assembled.run /\ sources.fs.pdf.bad_image # <<1, 0>>) => C14_AttachmentDegradation

(***************************************************************************)
(* More claims about the orchestrator (specification Spec).                *)
(***************************************************************************)
\* the job had attachments only, stage 2.1 went through them, and none of them
\* gave a text or an image
NothingProcessed ==
    /\ job.entry = "run_generation"
    /\ ~Truthy(job.direct_json_data)
    /\ job.attachment_paths # <<>>
    /\ Invoked(trace, "stage2_1")
    /\ payload.text = <<>>
    /\ payload.images = <<>>

\* C15 (as claimed): when no attachment could be processed and there is no
\* literal data, no extraction request is sent and the job ends Failed.
C15_EmptyContextRejected ==
    NothingProcessed
        => /\ oracle.sent.extraction = 0
           /\ pc = "failed" /\ result = "False"

(***************************************************************************)
(* More claims about the response parsers (specification SpecParse).       *)
(***************************************************************************)
\* one JSON object with text that is no JSON before or after it, not fenced
ObjectInProse == response.form = "raw" /\ response.isObject /\ response.prose

\* C16 (as claimed): a JSON object surrounded by non-JSON text, not fenced, is
\* recovered by the field-mapping parser and by the extraction parser alike.
C16_BraceSpanFallback ==
    ObjectInProse
        => /\ parse_out.mapping.run =>
                parse_out.mapping.fill_data = JsonLoads(response.body).val
           /\ parse_out.extraction.run =>
                /\ ~parse_out.extraction.res.raised
                /\ parse_out.extraction.res.data = JsonLoads(response.body).val

\* a brace stands inside a string of the text
BraceInString(text) ==
    \E n \in 1..Len(text) :
        /\ text[n] \in {"{", "}"}
        /\ Cardinality({m \in 1..(n - 1) : text[m] = DQ}) % 2 = 1

\* the part of C16 that holds: the extraction parser recovers an object none of
\* whose strings holds a brace
C16_Scope ==
    (ObjectInProse /\ ~BraceInString(response.body) /\ parse_out.extraction.run)
        => /\ ~parse_out.extraction.res.raised
           /\ parse_out.extraction.res.data = JsonLoads(response.body).val

(***************************************************************************)
(* Termination of a job (specification FairSpec).  The orchestrator is one *)
(* thread of straight-line code, so a statement that can run does run; the *)
(* calls it waits on are bounded: the conversion command runs under a      *)
(* timeout of subprocess.run, and a completion request that gets no answer *)
(* ends with the timeout error of the client, one of the ways the request  *)
(* raises.                                                                 *)
(***************************************************************************)
FairSpec == Spec /\ WF_vars(Next)

\* the orchestrator call has ended: it returned True or False, or os.makedirs
\* raised out of run_complete_workflow
Terminated == pc \in {"done", "failed", "raised"}

\* a completion request of the job ended with an error, a timeout among them
RequestExpired == oracle.extraction.kind = "raises" \/ oracle.mapping.kind = "raises"

\* C18 (as claimed): every job comes to its end, and a job one of whose
\* completion requests expired ends Failed.
C18_JobTerminates ==
    <>(Terminated /\ (RequestExpired => pc = "failed" /\ result = "False"))

\* the part of C18 that holds: every job comes to its end, and a job whose
\* extraction request expired ends Failed
C18_Scope ==
    <>(/\ Terminated
       /\ oracle.extraction.kind = "raises" => pc = "failed" /\ result = "False")

(***************************************************************************)
(* Two generation jobs at once (specification SpecConcurrent): two calls   *)
(* of run_generation with legacy templates, in two threads or two worker   *)
(* processes, each taking the steps of convert_doc_to_docx, stage 1 and    *)
(* stage 3 that touch the file system.  The conversion command, the oracle *)
(* and the save succeed, so that a job alone returns True with its own     *)
(* document at its output path.                                            *)
(***************************************************************************)
Jobs == {1, 2}

\* which paths the two jobs have in common: the legacy template (and with it
\* the two paths convert_doc_to_docx derives from it), the output path (the
\* same item within the same second)
Sharings == [template : BOOLEAN, output : BOOLEAN]

\* the template path and the output path of a job, as indices of the files
TemplateOf(sharing, j) == IF sharing.template THEN 1 ELSE j
OutputOf(sharing, j) == IF sharing.output THEN 1 ELSE j

\* no file at an output path; the document job j saves is <<j>>
NoDocument == <<>>

InitConcurrent ==
    /\ ParseIdle
    /\ FillIdle
    /\ JobIdle
    /\ AppIdle
    /\ AsmIdle
    /\ PoolIdle
    /\ \E sharing \in Sharings :
        runs = [j \in Jobs |-> [pc |-> "exists_docx", result |-> "none",
                                template |-> TemplateOf(sharing, j),
                                output |-> OutputOf(sharing, j)]]
    /\ \E earlier \in BOOLEAN :
        files = [converted |-> [t \in Jobs |-> earlier],
                 expected |-> [t \in Jobs |-> FALSE],
                 output |-> [o \in Jobs |-> NoDocument]]

otherVars == <<appVars, asmVars, poolVars, parseVars, fillVars, jobVars>>

\* the statement of job j goes on to the next one
Goto(j, next) == runs' = [runs EXCEPT ![j].pc = next]

\* an exception in job j: the except clause of run_generation returns False
Raise(j) == runs' = [runs EXCEPT ![j].pc = "failed", ![j].result = "False"]

\* if os.path.exists(docx_path)
ExistsDocx(j) ==
    /\ runs[j].pc = "exists_docx"
    /\ Goto(j, IF files.converted[runs[j].template] THEN "remove" ELSE "convert")
    /\ UNCHANGED <<files, otherVars>>

\* os.remove(docx_path), FileNotFoundError when the file has gone since the test
RemoveDocx(j) ==
    /\ runs[j].pc = "remove"
    /\ IF files.converted[runs[j].template]
       THEN /\ files' = [files EXCEPT !.converted[runs[j].template] = FALSE]
            /\ Goto(j, "convert")
       ELSE Raise(j) /\ UNCHANGED files
    /\ UNCHANGED otherVars

\* subprocess.run(cmd): the command writes expected_docx
RunConversion(j) ==
    /\ runs[j].pc = "convert"
    /\ files' = [files EXCEPT !.expected[runs[j].template] = TRUE]
    /\ Goto(j, "exists_expected")
    /\ UNCHANGED otherVars

\* if os.path.exists(expected_docx), RuntimeError when it does not
ExistsExpected(j) ==
    /\ runs[j].pc = "exists_expected"
    /\ IF files.expected[runs[j].template] THEN Goto(j, "rename") ELSE Raise(j)
    /\ UNCHANGED <<files, otherVars>>

\* os.rename(expected_docx, docx_path): FileNotFoundError when expected_docx has
\* gone since the test; a docx_path that exists is replaced, or on Windows the
\* call raises FileExistsError
RenameExpected(j) ==
    /\ runs[j].pc = "rename"
    /\ \E replaces \in BOOLEAN :
        IF /\ files.expected[runs[j].template]
           /\ files.converted[runs[j].template] => replaces
        THEN /\ files' = [files EXCEPT !.expected[runs[j].template] = FALSE,
                                       !.converted[runs[j].template] = TRUE]
             /\ Goto(j, "stage1")
        ELSE Raise(j) /\ UNCHANGED files
    /\ UNCHANGED otherVars

\* stage1_analyze_template(processed_template_path): Document(template_path)
AnalyzeConverted(j) ==
    /\ runs[j].pc = "stage1"
    /\ IF files.converted[runs[j].template] THEN Goto(j, "stage3") ELSE Raise(j)
    /\ UNCHANGED <<files, otherVars>>

\* stage3_fill_template(processed_template_path, output_path, fill_data):
\* Document(template_path), the fill, doc.save(output_path), and return True
FillConverted(j) ==
    /\ runs[j].pc = "stage3"
    /\ IF files.converted[runs[j].template]
       THEN /\ files' = [files EXCEPT !.output[runs[j].output] = <<j>>]
            /\ runs' = [runs EXCEPT ![j].pc = "done", ![j].result = "True"]
       ELSE Raise(j) /\ UNCHANGED files
    /\ UNCHANGED otherVars

NextConcurrent ==
    \E j \in Jobs :
        \/ ExistsDocx(j)
        \/ RemoveDocx(j)
        \/ RunConversion(j)
        \/ ExistsExpected(j)
        \/ RenameExpected(j)
        \/ AnalyzeConverted(j)
        \/ FillConverted(j)

SpecConcurrent == InitConcurrent /\ [][NextConcurrent]_vars

\* both jobs have returned
AllReturned == \A j \in Jobs : runs[j].pc \in {"done", "failed"}

\* what a job comes to when it runs alone: True, and its own document at its
\* output path
AsAlone(j) == runs[j].result = "True" /\ files.output[runs[j].output] = <<j>>

\* C19 (as claimed): whatever the interleaving of two jobs, and whether or not
\* they have the legacy template or the output path in common, each job ends as
\* it does alone.
C19_JobsIndependent == AllReturned => \A j \in Jobs : AsAlone(j)

\* the part of C19 that holds: two jobs with no path in common
C19_Scope ==
    (AllReturned /\ runs[1].template # runs[2].template /\ runs[1].output # runs[2].output)
        => \A j \in Jobs : AsAlone(j)

(***************************************************************************)
(* Two template uploads at once (specification SpecTemplates): two         *)
(* /api/upload requests, of type upload_templates or upload_item_template, *)
(* in two threads or two worker processes, each taking the steps of        *)
(* process_templates or process_item_template on the shared templates      *)
(* directory.                                                              *)
(***************************************************************************)
Uploads == {1, 2}

\* the names of the uploaded files: a template, the name process_item_template
\* gives that template for item d1, a file that is no template
TemplateName == <<"t", ".docx">>
ItemTemplateName == <<"t", "_", "d1", ".docx">>
TextName == <<"n", ".txt">>
FileNames == {TemplateName, ItemTemplateName, TextName}

\* the items of the session, and an id it does not have
KnownItems == {<<"d1">>}
DocIds == KnownItems \cup {<<"d9">>}

UploadTypes == {"upload_templates", "upload_item_template"}

\* f"{Path(filename).stem}_{doc_id}{Path(filename).suffix}"
NewFilename(filename, doc_id) ==
    Stem(filename) \o <<"_">> \o doc_id \o Extension(filename)

\* the path in the templates directory an upload is copied to
TargetPath(upload) ==
    IF upload.upload_type = "upload_item_template"
    THEN NewFilename(upload.filename, upload.doc_id)
    ELSE upload.filename

UploadRequests == [upload_type : UploadTypes, filename : FileNames, doc_id : DocIds]

PoolNames == {TargetPath(u) : u \in UploadRequests}

\* no file at a path of the directory; the file upload u brings is <<u>>
NoTemplate == <<>>
\* the content of a file that is in the directory before the uploads
EarlierTemplate == <<0>>

InitTemplates ==
    /\ ParseIdle
    /\ FillIdle
    /\ JobIdle
    /\ AppIdle
    /\ AsmIdle
    /\ ConIdle
    /\ \E requests \in [Uploads -> UploadRequests] :
        uploading = [u \in Uploads |->
                        [pc |-> "format", upload_type |-> requests[u].upload_type,
                         filename |-> requests[u].filename, doc_id |-> requests[u].doc_id]]
    /\ \E earlier \in SUBSET {TemplateName} :
        pool = [content |-> [n \in PoolNames |->
                                IF n \in earlier THEN EarlierTemplate ELSE NoTemplate],
                copies |-> [n \in PoolNames |-> 0],
                rewritten |-> {}]

restOfVars == <<appVars, asmVars, conVars, parseVars, fillVars, jobVars>>

\* the upload goes on to its next statement
Step(u, next) == uploading' = [uploading EXCEPT ![u].pc = next]

\* shutil.copy(file_path, target_path): the file of upload u is written to the
\* path, over what is there
Copy(u, target_path) ==
    pool' = [content |-> [pool.content EXCEPT ![target_path] = <<u>>],
             copies |-> [pool.copies EXCEPT ![target_path] = @ + 1],
             rewritten |-> IF pool.content[target_path] # NoTemplate
                           THEN pool.rewritten \cup {target_path}
                           ELSE pool.rewritten]

\* the test of the file name in both functions, and in process_item_template the
\* look-up of the item
CheckFormat(u) ==
    /\ uploading[u].pc = "format"
    /\ IF Extension(uploading[u].filename) \notin {<<".doc">>, <<".docx">>}
       THEN Step(u, "returned")
       ELSE IF uploading[u].upload_type = "upload_templates"
       THEN Step(u, "exists")
       ELSE IF uploading[u].doc_id \in KnownItems
       THEN Step(u, "copy")
       ELSE Step(u, "returned")
    /\ UNCHANGED <<pool, restOfVars>>

\* process_templates: if not target_path.exists()
TestTargetExists(u) ==
    /\ uploading[u].pc = "exists"
    /\ Step(u, IF pool.content[TargetPath(uploading[u])] = NoTemplate
               THEN "copy" ELSE "returned")
    /\ UNCHANGED <<pool, restOfVars>>

\* the shutil.copy of process_templates and of process_item_template
CopyTemplate(u) ==
    /\ uploading[u].pc = "copy"
    /\ Copy(u, TargetPath(uploading[u]))
    /\ Step(u, "returned")
    /\ UNCHANGED restOfVars

NextTemplates ==
    \E u \in Uploads :
        \/ CheckFormat(u)
        \/ TestTargetExists(u)
        \/ CopyTemplate(u)

SpecTemplates == InitTemplates /\ [][NextTemplates]_vars

\* C20 (as claimed): no upload writes over a file that is in the templates
\* directory, and no name is written more than once.
C20_PoolAppendOnly ==
    /\ pool.rewritten = {}
    /\ \A n \in PoolNames : pool.copies[n] <= 1

\* the part of C20 that holds: two process_templates uploads of different names
C20_Scope ==
    (/\ \A u \in Uploads : uploading[u].upload_type = "upload_templates"
     /\ uploading[1].filename # uploading[2].filename)
        => C20_PoolAppendOnly

(***************************************************************************)
(* More claims about the filler (specification SpecFill).                  *)
(***************************************************************************)
\* the attachment list of the fill data the filler was called with
ExhibitsGiven == Iterate(DictGet(fill_out.before, AttachmentsKey))

\* the filler was given a list of exhibits that is not empty, and saved
FilledWithExhibits ==
    /\ fill_out.run
    /\ ~fill_out.res.raised
    /\ DictHas(fill_out.before, AttachmentsKey)
    /\ DictGet(fill_out.before, AttachmentsKey).t = "list"
    /\ ExhibitsGiven # <<>>
    /\ \A n \in 1..Len(ExhibitsGiven) : ExhibitsGiven[n].t = "dict"

\* the path of an exhibit, <<>> when it has none
PathOfExhibit(attachment) ==
    IF DictHas(attachment, PathKey) /\ DictGet(attachment, PathKey).t = "str"
    THEN DictGet(attachment, PathKey).s ELSE <<>>

\* what may follow the sub-heading of an exhibit: the picture (or the note that
\* it cannot be shown) for an image that exists, the file name for another file
\* that exists, the note that the file was not found otherwise
KindsFor(attachment) ==
    IF PathOfExhibit(attachment) \notin Files.exists THEN {"not_found"}
    ELSE IF IsImagePath(PathOfExhibit(attachment)) THEN {"picture", "cannot_show"}
    ELSE {"file_ref"}

\* the body appended has the shape: a page break when the document has content,
\* the section heading, and for exhibit i its numbered sub-heading and one element
SectionShape(body, attachments, has_content) ==
    LET start == IF has_content THEN 1 ELSE 0
    IN  /\ Len(body) = start + 1 + 2 * Len(attachments)
        /\ has_content => body[1].kind = "page_break"
        /\ body[start + 1].kind = "section_heading"
        /\ \A i \in 1..Len(attachments) :
            /\ body[start + 2 * i].kind = "sub_heading"
            /\ StartsWith(body[start + 2 * i].text, IntStr(i) \o <<".", " ">>)
            /\ DictHas(attachments[i], TitleKey) =>
                body[start + 2 * i].text
                    = IntStr(i) \o <<".", " ">> \o PyStr(DictGet(attachments[i], TitleKey))
            /\ body[start + 2 * i + 1].kind \in KindsFor(attachments[i])

\* C21 (as claimed): the section appended for a list of exhibits that is not
\* empty is a page break (only when the document has content), one section
\* heading, and for every exhibit in list order, a missing one included, its
\* numbered sub-heading with its title and then one element for the exhibit.
C21_ExhibitSectionShape ==
    FilledWithExhibits
        => SectionShape(fill_out.res.doc.body, ExhibitsGiven,
                        template.doc.paras > 0 \/ Len(template.doc.tables) > 0)

\* the part of C21 that holds: the shape, when the file of every exhibit exists
C21_Scope ==
    (FilledWithExhibits
        /\ \A n \in 1..Len(ExhibitsGiven) : PathOfExhibit(ExhibitsGiven[n]) \in Files.exists)
        => C21_ExhibitSectionShape

\* C22 (as claimed): whatever the exhibits of the attachment list, the fill is
\* not aborted: the filler does not raise and (unless doc.save itself fails)
\* saves the document, every cell fill is kept and every exhibit has left at
\* least one element in the body.
C22_BadExhibitTolerated ==
    (/\ fill_out.run
     /\ fill_out.save = "ok"
     /\ DictHas(fill_out.before, AttachmentsKey)
     /\ DictGet(fill_out.before, AttachmentsKey).t = "list")
        => /\ ~fill_out.res.raised
           /\ fill_out.res.output.state = "complete"
           /\ fill_out.res.filled_fields_count
                = VisitsFilled(DictPop(fill_out.before, AttachmentsKey, VList(<<>>)).rest)
           /\ ExhibitsGiven # <<>> =>
                Len(fill_out.res.doc.body) >= 1 + Len(ExhibitsGiven)

\* the part of C22 that holds: exhibits that are objects whose path, if any, is a
\* string
C22_Scope ==
    (/\ fill_out.run
     /\ DictHas(fill_out.before, AttachmentsKey)
     /\ \A n \in 1..Len(ExhibitsGiven) :
        /\ ExhibitsGiven[n].t = "dict"
        /\ DictHas(ExhibitsGiven[n], PathKey) => DictGet(ExhibitsGiven[n], PathKey).t = "str")
        => C22_BadExhibitTolerated

\* the fill data the cells were matched against: the one the filler was called
\* with, without the reserved key
CellFillData == DictPop(fill_out.before, AttachmentsKey, VList(<<>>)).rest

\* C29: after a fill that did not raise, the filled-field count plus the number
\* of unmatched keys is the number of keys of the fill data without the reserved
\* key, which is the total the filler reports; no key is the identifier of more
\* than one cell position; the filled fields are the keys that are identifiers
\* of the template, and the unmatched keys are exactly the others.
C29_FillAccounting ==
    (fill_out.run /\ ~fill_out.res.raised)
        => /\ fill_out.res.total = Cardinality(DictKeys(CellFillData))
           /\ fill_out.res.filled_fields_count + Cardinality(fill_out.res.remaining_to_fill)
                = fill_out.res.total
           /\ \A key \in DictKeys(CellFillData) :
                Cardinality({n \in 1..Len(Visits(template.doc)) :
                                Visits(template.doc)[n].key = key}) <= 1
           /\ fill_out.res.filled_fields_count
                = Cardinality(DictKeys(CellFillData) \cap DictKeys(TemplateStructure))
           /\ fill_out.res.remaining_to_fill
                = DictKeys(CellFillData) \ DictKeys(TemplateStructure)

C29_Witness ==
    /\ fill_out.run
    /\ ~fill_out.res.raised
    /\ DictHas(fill_out.before, AttachmentsKey)
    /\ fill_out.res.filled_fields_count >= 2
    /\ Cardinality(fill_out.res.remaining_to_fill) = 1
    /\ fill_out.res.total = fill_out.res.filled_fields_count + 1

\* two identifiers of the document name one physical cell
HasMergedCell(doc) ==
    \E n, m \in 1..Len(Visits(doc)) :
        /\ n # m
        /\ Visits(doc)[n].i = Visits(doc)[m].i
        /\ Visits(doc)[n].c = Visits(doc)[m].c

\* the cells whose identifier is no key of the fill data read the same in the
\* document the filler saved as in the template
FrameKept(before, out) ==
    \A n \in 1..Len(Visits(before)) :
        ~DictHas(fill_out'.before, Visits(before)[n].key)
            => Strip(CellText(out, Visits(before)[n]))
                    = Strip(CellText(before, Visits(before)[n]))

\* C30 (as claimed): a fill leaves the template file as it is, and in the
\* document it saves every cell whose identifier is not a key of the fill data
\* has the text it has in the template.
C30_FillFrame ==
    [][(~fill_out.run /\ fill_out'.run)
        => /\ template' = template
           /\ fill_out'.res.output.state = "complete"
                => FrameKept(template.doc, fill_out'.res.output.doc)
      ]_vars

\* the part of C30 that holds: templates without merged cells
C30_Scope ==
    [][(~fill_out.run /\ fill_out'.run /\ ~HasMergedCell(template.doc))
        => /\ template' = template
           /\ fill_out'.res.output.state = "complete"
                => FrameKept(template.doc, fill_out'.res.output.doc)
      ]_vars

\* a value is a sequence of title/path pairs
IsExhibitList(v) ==
    /\ v.t = "list"
    /\ \A n \in 1..Len(v.items) :
        /\ v.items[n].t = "dict"
        /\ DictKeys(v.items[n]) = {TitleKey, PathKey}
        /\ DictGet(v.items[n], TitleKey).t = "str"
        /\ DictGet(v.items[n], PathKey).t = "str"

\* the entries of a fill data other than the reserved one, in order
CellEntries(v) == SelectSeq(v.items, LAMBDA it : it.k # AttachmentsKey)

\* the response holds a JSON object with the reserved key
AnswersWithAttachments ==
    /\ response.isObject
    /\ response.bare
    /\ response.form \in {"raw", "labelled"}
    /\ DictHas(JsonLoads(response.body).val, AttachmentsKey)

\* C23 (as claimed): a fill data the mapping client returns holds under the
\* reserved key nothing but a sequence of title/path pairs, and the cell
\* entries of the object the oracle answered with are returned whatever the
\* shape of its attachment list.
C23_AttachmentShapeValidated ==
    (parse_out.mapping.run /\ AnswersWithAttachments)
        => /\ DictHas(parse_out.mapping.fill_data, AttachmentsKey)
                => IsExhibitList(DictGet(parse_out.mapping.fill_data, AttachmentsKey))
           /\ CellEntries(parse_out.mapping.fill_data)
                = CellEntries(JsonLoads(response.body).val)

\* the part of C23 that holds: an object whose attachment list is a sequence of
\* title/path pairs is returned as it is
C23_Scope ==
    (/\ parse_out.mapping.run
     /\ AnswersWithAttachments
     /\ IsExhibitList(DictGet(JsonLoads(response.body).val, AttachmentsKey)))
        => parse_out.mapping.fill_data = JsonLoads(response.body).val

\* C24 (as claimed): a job that ended with True has its two artifacts in the job
\* directory, the structure and the fill data (an empty one too), unless the
\* write of the artifact failed, from whichever entry point it was started.
C24_ArtifactsPersisted ==
    (pc = "done" /\ result = "True")
        => /\ "structure_json" \notin disk.write_failed => disk.structure_json
           /\ "fill_data_json" \notin disk.write_failed => disk.fill_data_json

\* the part of C24 that holds: run_complete_workflow with a fill data that is
\* not empty
C24_Scope ==
    (/\ pc = "done"
     /\ result = "True"
     /\ job.entry = "run_complete_workflow"
     /\ fill_out.before # EmptyDict)
        => /\ "structure_json" \notin disk.write_failed => disk.structure_json
           /\ "fill_data_json" \notin disk.write_failed => disk.fill_data_json

\* a write of an artifact that fails does not end the job: it goes on to the
\* next stage
C24_WriteFailureTolerated ==
    [][disk'.write_failed # disk.write_failed
        => pc' = StageAfter(pc) /\ pc' # "failed" /\ result' = result]_vars

\* what made a failed job fail: the stage that raised, the last one invoked, or
\* the missing data source when stage 1 had returned and no stage was invoked
\* after it
FailureReason ==
    IF Len(trace) < 2 THEN "none"
    ELSE IF trace[Len(trace) - 1] = "stage1" /\ template_structure # NoneValue
         THEN "no_data_source"
    ELSE trace[Len(trace) - 1]

\* C27 (as claimed): when a job failed, what the caller is given names the stage
\* that raised, so that an unreadable template, a missing data source and a
\* failed generation can be told apart.
C27_FailureReasonSurfaced ==
    (http.pc = "returned" /\ pc = "failed")
        => /\ item.status = "failed"
           /\ item.error_info = FailureReason

\* the part of C27 that holds: a failed job is reported as failed, with the one
\* message the handler has for every failure
C27_Scope ==
    (http.pc = "returned" /\ pc = "failed")
        => /\ result = "False"
           /\ item.status = "failed"
           /\ item.error_info = "message"

\* the stages up to the save of the output document all completed
AllStagesCompleted ==
    /\ fill_out.run
    /\ ~fill_out.res.raised
    /\ fill_out.res.output.state = "complete"
    /\ trace # <<>>
    /\ trace[Len(trace)] = "stage3"

\* C28 (as claimed): neither orchestrator lets an exception out: a call that
\* has ended has returned True or False, and True exactly when every stage up
\* to the save of the output document completed without a raise.
C28_NeverPropagates ==
    Terminated
        => /\ result \in {"True", "False"}
           /\ result = "True" <=> AllStagesCompleted

\* the part of C28 that holds: run_generation, and run_complete_workflow once
\* its job directory is made
C28_Scope ==
    (Terminated /\ (job.entry = "run_generation" \/ disk.job_dir))
        => /\ result \in {"True", "False"}
           /\ result = "True" <=> AllStagesCompleted

(***************************************************************************)
(* The analyzer run again and again on one template file.                  *)
(***************************************************************************)
MaxAnalyses == 2

TemplateFiles == {DocFile(doc) : doc \in Templates} \cup {JunkFile, NoFile}

InitAnalyze ==
    /\ ParseIdle
    /\ JobIdle
    /\ RestIdle
    /\ template \in TemplateFiles
    /\ fill_data = EmptyDict
    /\ fill_out = NotRun
    /\ reread = NotRun
    /\ analyses = <<>>

\* stage1_analyze_template(template_path), with the except clause that re-raises
AnalyzeTemplateAgain ==
    /\ Len(analyses) < MaxAnalyses
    /\ analyses' = Append(analyses, Stage1AnalyzeTemplate(template))
    /\ template' = TemplateAfterStage1(template)
    /\ UNCHANGED <<fill_data, fill_out, reread, parseVars, jobVars, restVars>>

NextAnalyze == AnalyzeTemplateAgain

SpecAnalyze == InitAnalyze /\ [][NextAnalyze]_vars

\* the physical cells of a document: table and cell element
PhysicalCells(doc) ==
    UNION {{<<i, c>> : c \in 1..Len(doc.tables[i].cells)} : i \in 1..Len(doc.tables)}

\* the identifiers of a structure under which a physical cell is reported
IdentifiersOf(doc, cell) ==
    {Visits(doc)[n].key : n \in {m \in 1..Len(Visits(doc)) :
        Visits(doc)[m].i = cell[1] /\ Visits(doc)[m].c = cell[2]}}

\* a structure reports every physical cell of the document under one identifier
\* of its own, and holds nothing else
EveryCellOnce(doc, structure) ==
    /\ \A cell \in PhysicalCells(doc) :
        /\ Cardinality(IdentifiersOf(doc, cell)) = 1
        /\ IdentifiersOf(doc, cell) \subseteq DictKeys(structure)
    /\ \A n, m \in 1..Len(structure.items) :
        structure.items[n].k = structure.items[m].k => n = m
    /\ Len(structure.items) = Cardinality(PhysicalCells(doc))

\* C25 (as claimed): the structure stage 1 returns for a readable template
\* reports every physical table cell exactly once: no cell under two
\* identifiers, no identifier twice, as many entries as physical cells; a
\* document without tables gives the empty structure and no raise.
C25_EveryCellOnce ==
    \A n \in 1..Len(analyses) :
        template.readable
            => /\ ~analyses[n].raised
               /\ EveryCellOnce(template.doc, analyses[n].structure)
               /\ template.doc.tables = <<>> => analyses[n].structure = VDict(<<>>)

\* the part of C25 that holds: templates without merged cells
C25_Scope ==
    \A n \in 1..Len(analyses) :
        (template.readable /\ ~HasMergedCell(template.doc))
            => /\ ~analyses[n].raised
               /\ EveryCellOnce(template.doc, analyses[n].structure)
               /\ template.doc.tables = <<>> => analyses[n].structure = VDict(<<>>)

NoDataSourceRequest ==
    /\ http.additional_docs = <<>>
    /\ \/ Strip(http.json_data) \in {<<>>, <<"{", "}">>}
       \/ ~JsonLoads(http.json_data).ok

\* the handler is past the choice of the data source
SourceDecided == http.pc \notin {"idle", "lookup", "save"}

MapPut(map, key, value) ==
    [k \in DOMAIN map \cup {key} |-> IF k = key THEN value ELSE map[k]]

\* DocumentItem(name, doc_id)
DocumentItem(name, doc_id) ==
    [id |-> doc_id, name |-> name, status |-> "pending", filled_document_path |-> "None",
     error_info |-> "None", matched_template_path |-> "None"]

\* f"doc_{uuid.uuid4().hex[:8]}": the identifiers a list upload can draw
SessionDocIds == {<<"doc_", "1">>, <<"doc_", "2">>}

\* the lines of a completion list, in sorted order: one too short to be taken
ShortName == <<"a", "b">>
NameA == <<"a", "b", "c">>
NameB == <<"a", "b", "d">>
SortedNames == <<ShortName, NameA, NameB>>

\* the items read from an uploaded list
CompletionLists == {<<>>, <<ShortName>>, <<NameA>>, <<NameB, NameA, NameA>>, <<ShortName, NameB>>}

\* sorted(list(set([item for item in items if len(item) > 2])))
UniqueItems(items) ==
    SelectSeq(SortedNames,
              LAMBDA name : Len(name) > 2 /\ \E n \in 1..Len(items) : items[n] = name)

RECURSIVE AddItems(_, _, _, _)
\* the loop of process_completion_list from name n on; doc_ids[n] is the
\* identifier drawn for name n
AddItems(document_items, unique_items, doc_ids, n) ==
    IF n > Len(unique_items) THEN document_items
    ELSE IF \E d \in DOMAIN document_items : document_items[d].name = unique_items[n]
         THEN AddItems(document_items, unique_items, doc_ids, n + 1)
    ELSE AddItems(MapPut(document_items, doc_ids[n],
                         DocumentItem(unique_items[n], doc_ids[n])),
                  unique_items, doc_ids, n + 1)

\* a reset that leaves the template of the item
ResetKeepingTemplate(doc_item) ==
    [doc_item EXCEPT !.status = "pending", !.filled_document_path = "None",
                     !.error_info = "None"]

\* chat_handler, action reset_item: "Reset the item's state"
ResetItemState(doc_item) ==
    [doc_item EXCEPT !.status = "pending", !.filled_document_path = "None",
                     !.error_info = "None", !.matched_template_path = "None"]

\* generate_document_handler, after run_generation returned success
AfterGeneration(doc_item, success) ==
    IF success
    THEN [doc_item EXCEPT !.status = "completed", !.filled_document_path = "output"]
    ELSE [doc_item EXCEPT !.status = "failed", !.error_info = "message"]

\* upload_file_handler, upload_filled_doc, for an item of the session
AfterFilledUpload(doc_item) ==
    [doc_item EXCEPT !.status = "completed",
                     !.matched_template_path = "Manually Uploaded",
                     !.filled_document_path = "saved"]

\* session.document_items.get(doc_id)
HasItem(doc_id) == doc_id \in DOMAIN session.document_items
StatusOf(doc_id) == IF HasItem(doc_id) THEN session.document_items[doc_id].status ELSE "none"

\* the item of a request becomes what the handler makes of it
SetItem(doc_id, doc_item) ==
    session' = [session EXCEPT !.document_items = MapPut(@, doc_id, doc_item)]

Handled(action, doc_id, status_code) ==
    handled' = [action |-> action, doc_id |-> doc_id, status_code |-> status_code,
                was |-> StatusOf(doc_id)]

sessionRest == <<http, item, uploads_dir, asmVars, conVars, poolVars, parseVars, fillVars,
                 jobVars>>

InitSession ==
    /\ ParseIdle
    /\ FillIdle
    /\ JobIdle
    /\ RestIdle

\* POST /api/generate: 404 without the item, 400 without a data source, else
\* the item takes the outcome of run_generation
GenerateDocument ==
    /\ \E doc_id \in SessionDocIds, outcome \in {"rejected", "True", "False"} :
        IF ~HasItem(doc_id)
        THEN Handled("generate", doc_id, 404) /\ UNCHANGED session
        ELSE IF outcome = "rejected"
        THEN Handled("generate", doc_id, 400) /\ UNCHANGED session
        ELSE /\ Handled("generate", doc_id, 200)
             /\ SetItem(doc_id, AfterGeneration(session.document_items[doc_id],
                                                outcome = "True"))
    /\ UNCHANGED sessionRest

\* POST /api/upload, upload_filled_doc: the file is moved, and the item, if the
\* session has it, is completed; an os.rename that fails is only logged
UploadFilledDoc ==
    /\ \E doc_id \in SessionDocIds, renamed \in BOOLEAN :
        /\ Handled("upload_filled_doc", doc_id, 200)
        /\ IF renamed /\ HasItem(doc_id)
           THEN SetItem(doc_id, AfterFilledUpload(session.document_items[doc_id]))
           ELSE UNCHANGED session
    /\ UNCHANGED sessionRest

\* the template_path of an associate_template request: none, or a path
TemplatePath == <<"templates", "/", "t", ".docx">>
TemplatePathChoices == {<<>>, TemplatePath}

\* POST /api/chat/message, action associate_template
AssociateTemplate ==
    /\ \E doc_id \in SessionDocIds, template_path \in TemplatePathChoices :
        IF ~HasItem(doc_id) \/ template_path = <<>>
        THEN Handled("associate_template", doc_id, 400) /\ UNCHANGED session
        ELSE /\ Handled("associate_template", doc_id, 200)
             /\ SetItem(doc_id, [session.document_items[doc_id] EXCEPT
                                    !.matched_template_path = "template"])
    /\ UNCHANGED sessionRest

\* POST /api/chat/message, action reset_item
ResetItem ==
    /\ \E doc_id \in SessionDocIds :
        IF ~HasItem(doc_id)
        THEN Handled("reset_item", doc_id, 404) /\ UNCHANGED session
        ELSE /\ Handled("reset_item", doc_id, 200)
             /\ SetItem(doc_id, ResetItemState(session.document_items[doc_id]))
    /\ UNCHANGED sessionRest

\* POST /api/upload, upload_completion_list: process_completion_list; a file
\* that cannot be read leaves the session as it is
UploadCompletionList ==
    /\ \E items \in CompletionLists, readable \in BOOLEAN :
        /\ Handled("upload_completion_list", <<>>, 200)
        /\ IF ~readable THEN UNCHANGED session
           ELSE \E doc_ids \in [1..Len(UniqueItems(items)) -> SessionDocIds] :
                    session' = [session EXCEPT !.document_items =
                                    AddItems(@, UniqueItems(items), doc_ids, 1)]
    /\ UNCHANGED sessionRest

\* POST /api/upload, upload_templates: process_templates keeps the uploaded
\* template in session.templates
UploadTemplates ==
    /\ Handled("upload_templates", <<>>, 200)
    /\ session' = [session EXCEPT !.templates = MapPut(@, TemplateName, TemplatePath)]
    /\ UNCHANGED sessionRest

NextSession ==
    \/ GenerateDocument
    \/ UploadFilledDoc
    \/ AssociateTemplate
    \/ ResetItem
    \/ UploadCompletionList
    \/ UploadTemplates

SpecSession == InitSession /\ [][NextSession]_vars

(***************************************************************************)
(* Claims about the session (specification SpecSession).                   *)
(***************************************************************************)
DocumentItems == {session.document_items[d] : d \in DOMAIN session.document_items}

\* C31 (as claimed): an item has a filled document path exactly when its
\* status is completed.
C31_PathIffCompleted ==
    \A doc_item \in DocumentItems :
        doc_item.filled_document_path # "None" <=> doc_item.status = "completed"

\* the part of C31 that holds: a completed item has a path, a pending one none
C31_Scope ==
    \A doc_item \in DocumentItems :
        /\ doc_item.status = "completed" => doc_item.filled_document_path # "None"
        /\ doc_item.status = "pending" => doc_item.filled_document_path = "None"

\* C32 (as claimed): an item has error information exactly when its status is
\* failed.
C32_ErrorIffFailed ==
    \A doc_item \in DocumentItems :
        doc_item.error_info # "None" <=> doc_item.status = "failed"

\* the part of C32 that holds: a failed item has error information, a pending
\* one none
C32_Scope ==
    \A doc_item \in DocumentItems :
        /\ doc_item.status = "failed" => doc_item.error_info # "None"
        /\ doc_item.status = "pending" => doc_item.error_info = "None"

\* no two items of the session have the same name
NamesUnique ==
    \A d, e \in DOMAIN session.document_items :
        session.document_items[d].name = session.document_items[e].name => d = e

\* C34 (as claimed): a list upload leaves no two items with the same name and
\* leaves every item the session had as it was: its name, status, template and
\* result.
C34_ItemNamesUnique ==
    [][handled'.action = "upload_completion_list"
        => /\ NamesUnique'
           /\ \A d \in DOMAIN session.document_items :
                /\ d \in DOMAIN session'.document_items
                /\ session'.document_items[d] = session.document_items[d]
      ]_vars

\* the part of C34 that holds: names stay unique, and an item is changed by a
\* list upload only when the identifier drawn for a new item is its own: a new
\* item then takes its place
C34_Scope ==
    [][handled'.action = "upload_completion_list"
        => /\ NamesUnique'
           /\ \A d \in DOMAIN session.document_items :
                /\ d \in DOMAIN session'.document_items
                /\ \/ session'.document_items[d] = session.document_items[d]
                   \/ session'.document_items[d]
                            = DocumentItem(session'.document_items[d].name, d)
      ]_vars

\* C35: a reset_item request for an item of the session leaves the item as it
\* was created, pending with no result, no error information and no template,
\* under its identifier and name; every other item, the templates and the
\* context files of the session stay as they are.  A request for an item the
\* session does not have changes nothing.
C35_ResetToCreation ==
    [][handled'.action = "reset_item"
        => IF handled'.status_code = 200
           THEN /\ handled'.doc_id \in DOMAIN session.document_items
                /\ DOMAIN session'.document_items = DOMAIN session.document_items
                /\ \A d \in DOMAIN session.document_items :
                    session'.document_items[d] =
                        IF d = handled'.doc_id
                        THEN DocumentItem(session.document_items[d].name,
                                          session.document_items[d].id)
                        ELSE session.document_items[d]
                /\ session'.templates = session.templates
                /\ session'.context_files = session.context_files
           ELSE session' = session
      ]_vars

C35_Witness ==
    /\ handled.action = "reset_item"
    /\ handled.status_code = 200
    /\ handled.was = "failed"
    /\ session.document_items[handled.doc_id]
            = DocumentItem(session.document_items[handled.doc_id].name, handled.doc_id)
    /\ \E d \in DOMAIN session.document_items :
        /\ d # handled.doc_id
        /\ session.document_items[d].status = "completed"
        /\ session.document_items[d].matched_template_path = "Manually Uploaded"
    /\ DOMAIN session.templates # {}
====
